---- MODULE Spec2Model ----
(***************************************************************************)
(* A model of the 2D rigid-body engine: RigidBody construction, the        *)
(* world-space cache, AABBs, the spatial hash, SAT with contact            *)
(* extraction, the impulse solver and World::step driven by the render     *)
(* loop.                                                                   *)
(*                                                                         *)
(* Numbers.  A C++ float is modelled as a fixed-point number with two      *)
(* decimals: the integer v stands for v / Scale.  A product or quotient    *)
(* of two floats is rounded to the nearest grid value, ties away from      *)
(* zero, which keeps the sign symmetry of IEEE rounding.  Squared          *)
(* lengths and dot products that the code only compares or divides by one  *)
(* another are kept unrounded (four decimals).  Runs are followed while    *)
(* every float stays finite: a division by zero moves the world to the     *)
(* position "nonfinite" and the run is not followed further.               *)
(***************************************************************************)
EXTENDS Integers, Sequences, FiniteSets, TLC

\* ------------------------------------------------------------ bounds
MaxBodies == 3
MaxSteps == 2
MaxSetupBodies == 2

\* ------------------------------------------------------------ numbers
Scale == 10 * 10

Abs(x) == IF x < 0 THEN -x ELSE x

\* a / b rounded to the nearest integer, ties away from zero (b # 0)
RDiv(a, b) ==
    LET q == (2 * Abs(a) + Abs(b)) \div (2 * Abs(b))
    IN  IF (a < 0) # (b < 0) THEN -q ELSE q

FMul(a, b) == RDiv(a * b, Scale)
FDiv(a, b) == RDiv(a * Scale, b)
FMin(a, b) == IF b < a THEN b ELSE a
FMax(a, b) == IF a < b THEN b ELSE a

\* floor of the square root of n >= 0, by bisection on [lo, hi)
RECURSIVE SqrtBisect(_, _, _)
SqrtBisect(n, lo, hi) ==
    IF hi - lo <= 1 THEN lo
    ELSE LET mid == (lo + hi) \div 2
         IN  IF mid * mid <= n THEN SqrtBisect(n, mid, hi)
             ELSE SqrtBisect(n, lo, mid)

RECURSIVE SqrtCap(_, _)
SqrtCap(n, hi) == IF hi * hi > n THEN hi ELSE SqrtCap(n, 2 * hi)

ISqrt(n) == IF n <= 0 THEN 0 ELSE SqrtBisect(n, 0, SqrtCap(n, 1))

\* r or r + 1, whichever is nearer to the square root of sq, r being its floor
RoundRoot(sq, r) == IF sq - r * r > r THEN r + 1 ELSE r

\* std::sqrt of a squared length kept unrounded: the result is a float
FSqrt(sq) == RoundRoot(sq, ISqrt(sq))

\* pi, as the code's M_PI, on the grid
Pi == 314

\* std::sin / std::cos: the angle is reduced to [-pi/2, pi/2] and the sine
\* series is summed with three decimals, then rounded to the grid
TrigScale == 10 * Scale

RECURSIVE ReduceAngle(_)
ReduceAngle(a) ==
    IF a > Pi THEN ReduceAngle(a - 2 * Pi)
    ELSE IF a < -Pi THEN ReduceAngle(a + 2 * Pi)
    ELSE a

\* x - x^3/3! + x^5/5! - x^7/7! + x^9/9!: the term of x^k is added with
\* its sign, and x^(k+2) and (k+2)! are handed on to the next turn
RECURSIVE SinSeriesFrom(_, _, _, _, _, _)
SinSeriesFrom(x2, xk, k, factorial, sign, sum) ==
    IF k > 9 THEN sum
    ELSE SinSeriesFrom(x2, RDiv(xk * x2, TrigScale), k + 2,
                       factorial * (k + 1) * (k + 2), -sign,
                       sum + sign * RDiv(xk, factorial))

SinSeries(x) ==
    RDiv(SinSeriesFrom(RDiv((x * 10) * (x * 10), TrigScale), x * 10, 1, 1, 1, 0), 10)

\* the angle r of [-pi, pi] folded into [-pi/2, pi/2], the sine kept
FoldAngle(r) ==
    IF r > (Pi \div 2) THEN Pi - r
    ELSE IF r < -(Pi \div 2) THEN -Pi - r
    ELSE r

FSin(a) == SinSeries(FoldAngle(ReduceAngle(a)))

FCos(a) == FSin(a + (Pi \div 2))

\* ------------------------------------------------------------ Vec2
Vec2(x, y) == [x |-> x, y |-> y]
VAdd(a, b) == Vec2(a.x + b.x, a.y + b.y)
VSub(a, b) == Vec2(a.x - b.x, a.y - b.y)
VScale(a, s) == Vec2(FMul(a.x, s), FMul(a.y, s))
VNeg(a) == Vec2(-a.x, -a.y)

\* Vec2::length
VLength(a) == FSqrt(a.x * a.x + a.y * a.y)

\* Vec2::normalise: the zero vector when the length is not above 1e-6
DivideByLength(a, len) ==
    IF len > 0 THEN Vec2(FDiv(a.x, len), FDiv(a.y, len)) ELSE Vec2(0, 0)
VNormalise(a) == DivideByLength(a, VLength(a))

\* vecMath::dot and vecMath::cross of two floats pairs, rounded to the grid
Dot(a, b) == RDiv(a.x * b.x + a.y * b.y, Scale)
Cross(a, b) == RDiv(a.x * b.y - a.y * b.x, Scale)

\* the same products kept unrounded (four decimals)
DotSq(a, b) == a.x * b.x + a.y * b.y
LengthSquared(a) == a.x * a.x + a.y * a.y
DistanceSquared(a, b) ==
    (a.x - b.x) * (a.x - b.x) + (a.y - b.y) * (a.y - b.y)

\* |a - b| < 1e-3: on a grid of 1e-2 this is equality
FloatCloselyEqual(a, b) == Abs(a - b) * 1000 < Scale
VecCloselyEqual(a, b) == FloatCloselyEqual(a.x, b.x) /\ FloatCloselyEqual(a.y, b.y)

\* ------------------------------------------------------------ RigidBody
\* 1 / 0.0f: the value of inverseInertia when inertia is 0
Infinity == Scale * Scale * Scale * Scale

\* default member initialisers of struct RigidBody; id is the identity of
\* the object, used to follow a body across erasures from the collection
DefaultBody ==
    [ id |-> 0,
      position |-> Vec2(0, 0),
      rotation |-> 0,
      linearVelocity |-> Vec2(0, 0),
      linearAcceleration |-> Vec2(0, 0),
      angularVelocity |-> 0,
      inertia |-> 0,
      inverseInertia |-> 0,
      staticFriction |-> 20,
      dynamicFriction |-> 80,
      mass |-> 0,
      inverseMass |-> 0,
      restitution |-> 0,
      isStatic |-> FALSE,
      vertices |-> << >>,
      transformedVertices |-> << >>,
      update |-> FALSE ]

\* generateRegularPolygon: n vertices on the circle of radius r, the first
\* at angle -pi/2, counter-clockwise; empty for n < 3
PolygonVertex(r, theta) == Vec2(FMul(r, FCos(theta)), FMul(r, FSin(theta)))

generateRegularPolygon(n, r) ==
    IF n < 3 THEN << >>
    ELSE [ k \in 1..n |-> PolygonVertex(r, -RDiv(Pi, 2) + (k - 1) * RDiv(2 * Pi, n)) ]

computeRegularPolygonInertia(n, m, r) ==
    IF n < 3 \/ m <= 0 THEN 0
    ELSE FMul(RDiv(FMul(FMul(m, r), r), 12), 3 * Scale + FCos(RDiv(2 * Pi, n)))

computeInverseMass(mass, isStatic) ==
    IF isStatic \/ mass <= 0 THEN 0 ELSE FDiv(Scale, mass)

\* RigidBody::RigidBody(n, r, m): isStatic still has its default, false
PolygonWithInertia(n, r, m, inertia) ==
    [ DefaultBody EXCEPT
        !.mass = m,
        !.vertices = generateRegularPolygon(n, r),
        !.inertia = inertia,
        !.inverseInertia = IF inertia = 0 THEN Infinity ELSE FDiv(Scale, inertia),
        !.inverseMass = computeInverseMass(m, DefaultBody.isStatic) ]

RigidBodyPolygon(n, r, m) ==
    PolygonWithInertia(n, r, m, computeRegularPolygonInertia(n, m, r))

\* Transform::applyTransform
Rotated(p, c, s) == Vec2(FMul(p.x, c) - FMul(p.y, s), FMul(p.x, s) + FMul(p.y, c))

applyTransform(position, rotation, p) ==
    VAdd(Rotated(p, FCos(rotation), FSin(rotation)), position)

\* the world-space image of the local vertices under the body's pose
WorldVertices(body) ==
    [ k \in 1..Len(body.vertices) |->
        applyTransform(body.position, body.rotation, body.vertices[k]) ]

\* setBoxVertices: four local corners, counter-clockwise, and the cache
\* rebuilt at once from the current pose; the dirty flag is not touched
BoxCorners(hw, hh) == << Vec2(-hw, -hh), Vec2(hw, -hh), Vec2(hw, hh), Vec2(-hw, hh) >>

RebuildCache(body) == [ body EXCEPT !.transformedVertices = WorldVertices(body) ]

setBoxVertices(body, width, height) ==
    RebuildCache([ body EXCEPT !.vertices =
                     BoxCorners(FMul(width, Scale \div 2), FMul(height, Scale \div 2)) ])

\* RigidBody::move, rotate, snapTo
move(body, amount) ==
    [ body EXCEPT !.position = VAdd(body.position, amount), !.update = TRUE ]
rotate(body, radians) ==
    [ body EXCEPT !.rotation = body.rotation + radians, !.update = TRUE ]
snapTo(body, pos) ==
    [ body EXCEPT !.position = pos, !.update = TRUE ]

\* physEng::worldSpace: rebuild the cache unless it is clean and non-empty
worldSpace(body) ==
    IF ~body.update /\ body.transformedVertices # << >> THEN body
    ELSE [ body EXCEPT !.transformedVertices = WorldVertices(body),
                       !.update = FALSE ]

\* ------------------------------------------------------------ AABB
\* getAABB over the cached world vertices (which must not be empty)
RECURSIVE FoldMin(_, _, _)
FoldMin(seq, k, acc) ==
    IF k > Len(seq) THEN acc
    ELSE FoldMin(seq, k + 1, IF seq[k] < acc THEN seq[k] ELSE acc)

RECURSIVE FoldMax(_, _, _)
FoldMax(seq, k, acc) ==
    IF k > Len(seq) THEN acc
    ELSE FoldMax(seq, k + 1, IF seq[k] > acc THEN seq[k] ELSE acc)

BoxAround(xs, ys) ==
    [ min |-> Vec2(FoldMin(xs, 1, xs[1]), FoldMin(ys, 1, ys[1])),
      max |-> Vec2(FoldMax(xs, 1, xs[1]), FoldMax(ys, 1, ys[1])) ]

getAABB(body) ==
    BoxAround([ k \in 1..Len(body.transformedVertices) |-> body.transformedVertices[k].x ],
              [ k \in 1..Len(body.transformedVertices) |-> body.transformedVertices[k].y ])

AABBintersectionProper(a, b) ==
    IF a.max.x <= b.min.x \/ b.max.x <= a.min.x THEN FALSE
    ELSE IF a.max.y <= b.min.y \/ b.max.y <= a.min.y THEN FALSE
    ELSE TRUE

AABBintersection(a, b) ==
    IF a.max.x < b.min.x \/ b.max.x < a.min.x THEN FALSE
    ELSE IF a.max.y < b.min.y \/ b.max.y < a.min.y THEN FALSE
    ELSE TRUE

\* ------------------------------------------------------------ spatial hash
\* GridConfig::cellSize = 2.0
CellSize == 2 * Scale

\* cellCoord: floor(x / cellSize)
cellCoord(x, cellSize) == x \div cellSize

\* cellKey packs (cx, cy) into 64 bits and pairKey packs (min, max) into 64
\* bits; both packings are one-to-one on 32-bit ints, so a key is modelled
\* by the pair it packs
cellKey(cx, cy) == << cx, cy >>
pairKey(a, b) == IF a > b THEN << b, a >> ELSE << a, b >>

CellsOfMinCorner(box, cellSize) ==
    { cellKey(cellCoord(box.min.x, cellSize), cellCoord(box.min.y, cellSize)) }

\* the cells covered by one AABB
CellsOf(box, cellSize) ==
    LET x0 == cellCoord(box.min.x, cellSize)
        x1 == cellCoord(box.max.x, cellSize)
        y0 == cellCoord(box.min.y, cellSize)
        y1 == cellCoord(box.max.y, cellSize)
    IN  { cellKey(cx, cy) : cx \in x0..x1, cy \in y0..y1 }

\* the keys of the bucket map after the insertion loop
BucketKeys(aabbs, cellSize) ==
    UNION { CellsOf(aabbs[i], cellSize) : i \in 1..Len(aabbs) }

BucketOfDescending(aabbs, cellSize, key) ==
    LET ids == SelectSeq([ i \in 1..Len(aabbs) |-> i ],
                         LAMBDA i : key \in CellsOf(aabbs[i], cellSize))
    IN  [ k \in 1..Len(ids) |-> ids[Len(ids) + 1 - k] ]

\* the bucket of one key after the insertion loop: i runs upward and is
\* pushed once to every cell it covers, so a bucket lists its indices in
\* ascending order
BucketOf(aabbs, cellSize, key) ==
    SelectSeq([ i \in 1..Len(aabbs) |-> i ],
              LAMBDA i : key \in CellsOf(aabbs[i], cellSize))

\* the two inner loops over one bucket run through the pairs a < b of its
\* positions, a outermost: PairOffset(len, a) pairs come before those of a
PairOffset(len, a) == ((a - 1) * (2 * len - a)) \div 2

LoopPairAt(ids, a, k) == << ids[a], ids[a + k - PairOffset(Len(ids), a)] >>

\* the pairs (ids[a], ids[b]) in the order the loops reach them
LoopPairs(ids) ==
    [ k \in 1..PairOffset(Len(ids), Len(ids)) |->
        LoopPairAt(ids, CHOOSE a \in 1..(Len(ids) - 1) :
                           PairOffset(Len(ids), a) < k /\ k <= PairOffset(Len(ids), a + 1), k) ]

\* the two inner loops over one bucket: (ids[a], ids[b]) is emitted when its
\* pair key is new, and the key is then seen; st = [seen, pairs].  A bucket
\* holds an index once, so no key comes twice within one bucket and the
\* keys seen before the bucket decide which pairs it emits
EmitAmongKeyOfSecond(loopPairs, st) ==
    [ seen |-> st.seen \cup { pairKey(loopPairs[k][2], loopPairs[k][2]) :
                                k \in 1..Len(loopPairs) },
      pairs |-> st.pairs \o SelectSeq(loopPairs,
                                      LAMBDA p : pairKey(p[2], p[2]) \notin st.seen) ]

EmitAmong(loopPairs, st) ==
    [ seen |-> st.seen \cup { pairKey(loopPairs[k][1], loopPairs[k][2]) :
                                k \in 1..Len(loopPairs) },
      pairs |-> st.pairs \o SelectSeq(loopPairs,
                                      LAMBDA p : pairKey(p[1], p[2]) \notin st.seen) ]

EmitPairsAdjacent(ids, st) ==
    EmitAmong([ k \in 1..(Len(ids) - 1) |-> << ids[k], ids[k + 1] >> ], st)

EmitPairs(ids, st) == EmitAmong(LoopPairs(ids), st)

\* the body of the loop over buckets, for one bucket
VisitBucket(ids, st) ==
    IF Len(ids) < 2 THEN st ELSE EmitPairs(ids, st)

\* the loop over buckets, taken in the order the map iterates them
RECURSIVE VisitBuckets(_, _, _, _, _)
VisitBuckets(aabbs, cellSize, order, k, st) ==
    IF k > Len(order) THEN st
    ELSE VisitBuckets(aabbs, cellSize, order, k + 1,
                      VisitBucket(BucketOf(aabbs, cellSize, order[k]), st))

\* buildPairsFromAABBs, given the iteration order of the unordered_map
buildPairsFromAABBs(aabbs, cellSize, order) ==
    VisitBuckets(aabbs, cellSize, order, 1, [ seen |-> {}, pairs |-> << >> ]).pairs

\* ------------------------------------------------------------ SAT
\* vecMath::pointSegmentDistance: [point, distSq] of the point of segment
\* a-b closest to p
Candidate(p, contact) == [ point |-> contact, distSq |-> DistanceSquared(p, contact) ]

\* the point of the segment at parameter t, t clamped to [0, 1]
PointAt(a, b, ab, t) ==
    IF t <= 0 THEN a
    ELSE IF t >= Scale THEN b
    ELSE VAdd(a, VScale(ab, t))

ProjectOnSegment(a, b, p, ab, abLengthSquared) ==
    IF abLengthSquared <= 0
    THEN Candidate(p, a)
    ELSE Candidate(p, PointAt(a, b, ab,
                              RDiv(DotSq(VSub(p, a), ab) * Scale, abLengthSquared)))

pointSegmentDistance(a, b, p) ==
    ProjectOnSegment(a, b, p, VSub(b, a), LengthSquared(VSub(b, a)))

\* gatherCandidates(P, Q): every vertex of P against every edge of Q
CandidateOf(vertsP, vertsQ, vP, i) ==
    pointSegmentDistance(vertsQ[i], vertsQ[(i % Len(vertsQ)) + 1], vertsP[vP])

gatherCandidates(vertsP, vertsQ) ==
    [ c \in 1..(Len(vertsP) * Len(vertsQ)) |->
        CandidateOf(vertsP, vertsQ, ((c - 1) \div Len(vertsQ)) + 1,
                    ((c - 1) % Len(vertsQ)) + 1) ]

\* the least index of a set of indices, or 0: where a loop that breaks at
\* its first hit stops
FirstIndex(hits) ==
    IF hits = {} THEN 0 ELSE CHOOSE k \in hits : \A m \in hits : k <= m

\* eps = 0.0001 on a squared distance (four decimals)
ContactEps == (Scale * Scale) \div 10000

ContactResult(candidates, k1, k2) ==
    [ contact1 |-> IF k1 = 0 THEN Vec2(0, 0) ELSE candidates[k1].point,
      contact2 |-> IF k2 = 0 THEN Vec2(0, 0) ELSE candidates[k2].point,
      contactCount |-> IF k2 # 0 THEN 2 ELSE IF k1 # 0 THEN 1 ELSE 0 ]

SecondContactAnyPoint(candidates, threshold, k1, contact1) ==
    ContactResult(candidates, k1,
        FirstIndex({ k \in 1..Len(candidates) :
                       k # k1 /\ candidates[k].distSq <= threshold }))

\* the second loop: the first candidate within the threshold whose point is
\* not closely equal to contact1 (the zero vector when the first loop found none)
SecondContact(candidates, threshold, k1, contact1) ==
    ContactResult(candidates, k1,
        FirstIndex({ k \in 1..Len(candidates) :
                       /\ candidates[k].distSq <= threshold
                       /\ ~VecCloselyEqual(contact1, candidates[k].point) }))

\* the first loop: the first candidate within the threshold
FirstContact(candidates, threshold, k1) ==
    SecondContact(candidates, threshold, k1,
                  IF k1 = 0 THEN Vec2(0, 0) ELSE candidates[k1].point)

ContactsWithin(candidates, threshold) ==
    FirstContact(candidates, threshold,
        FirstIndex({ k \in 1..Len(candidates) : candidates[k].distSq <= threshold }))

ContactsAmong(candidates) ==
    ContactsWithin(candidates,
        FoldMin([ k \in 1..Len(candidates) |-> candidates[k].distSq ], 1,
                candidates[1].distSq) + ContactEps)

getContactPoints(A, B) ==
    IF A.transformedVertices = << >> \/ B.transformedVertices = << >>
    THEN [ contact1 |-> Vec2(0, 0), contact2 |-> Vec2(0, 0), contactCount |-> 0 ]
    ELSE ContactsAmong(gatherCandidates(A.transformedVertices, B.transformedVertices)
                       \o gatherCandidates(B.transformedVertices, A.transformedVertices))

\* projectAxis: [min, max] of the vertices' projections on the axis
Interval(proj) == [ min |-> FoldMin(proj, 1, proj[1]), max |-> FoldMax(proj, 1, proj[1]) ]

projectAxis(vertices, normalAxis) ==
    Interval([ k \in 1..Len(vertices) |-> Dot(vertices[k], normalAxis) ])

\* the axis tested for edge i of a vertex list
NormalOf(edge) == VNormalise(Vec2(-edge.y, edge.x))

EdgeAxis(verts, i) == NormalOf(VSub(verts[(i % Len(verts)) + 1], verts[i]))

\* the gap test of SATLoop: strict, so intervals that only touch are no gap
GapTest(maxA, minA, maxB, minB) == maxA < minB \/ maxB < minA

\* SATLoop from edge i on: [ok, penetration, normal]
RECURSIVE SATLoopFrom(_, _, _, _, _)

\* the depth found on the axis is kept when it is below the least so far
KeepLeast(verticesA, verticesB, i, penetration, normal, normalAxis, axisDepth) ==
    IF axisDepth < penetration
    THEN SATLoopFrom(verticesA, verticesB, i + 1, axisDepth, normalAxis)
    ELSE SATLoopFrom(verticesA, verticesB, i + 1, penetration, normal)

\* one turn of the loop, the axis and both projections at hand
SATEdge(verticesA, verticesB, i, penetration, normal, normalAxis, pa, pb) ==
    IF GapTest(pa.max, pa.min, pb.max, pb.min)
    THEN [ ok |-> FALSE, penetration |-> penetration, normal |-> normal ]
    ELSE KeepLeast(verticesA, verticesB, i, penetration, normal, normalAxis,
                   FMin(pa.max - pb.min, pb.max - pa.min))

SATAxis(verticesA, verticesB, i, penetration, normal, normalAxis) ==
    SATEdge(verticesA, verticesB, i, penetration, normal, normalAxis,
            projectAxis(verticesA, normalAxis), projectAxis(verticesB, normalAxis))

SATLoopFrom(verticesA, verticesB, i, penetration, normal) ==
    IF i > Len(verticesA) THEN [ ok |-> TRUE, penetration |-> penetration, normal |-> normal ]
    ELSE SATAxis(verticesA, verticesB, i, penetration, normal, EdgeAxis(verticesA, i))

SATLoop(A, B, penetration, normal) ==
    SATLoopFrom(A.transformedVertices, B.transformedVertices, 1, penetration, normal)

\* SATLoop reads vertices[0] of B's cache on every edge of A: undefined when
\* A has an edge and B has no vertex
SATLoopDefined(A, B) ==
    A.transformedVertices = << >> \/ B.transformedVertices # << >>

\* both SATLoop calls of SATCollision: [inCollision, penetration, normal]
BothLoops(r1, r2) ==
    [ inCollision |-> r1.ok /\ r2.ok,
      penetration |-> r2.penetration,
      normal |-> r2.normal ]

SecondLoop(A, B, r1) == BothLoops(r1, SATLoop(B, A, r1.penetration, r1.normal))

SATLoops(A, B) == SecondLoop(A, B, SATLoop(A, B, Infinity, Vec2(0, 0)))

OrientNormalNever(normal, A, B) == normal

\* the orientation fix-up: the normal is negated when it points from B to A
OrientNormal(normal, A, B) ==
    IF Dot(normal, VSub(B.position, A.position)) < 0 THEN VNeg(normal) ELSE normal

NoContacts == [ contact1 |-> Vec2(0, 0), contact2 |-> Vec2(0, 0), contactCount |-> 0 ]

\* the Manifold SATCollision builds; the bodies are named by a and b
Manifold(loops, normal, contactData) ==
    [ normal |-> normal,
      contact1 |-> contactData.contact1,
      contact2 |-> contactData.contact2,
      contactCount |-> contactData.contactCount,
      penetration |-> loops.penetration,
      inCollision |-> loops.inCollision ]

ManifoldOf(A, B, loops) ==
    IF loops.inCollision
    THEN Manifold(loops, OrientNormal(loops.normal, A, B), getContactPoints(A, B))
    ELSE Manifold(loops, loops.normal, NoContacts)

SATCollision(A, B) == ManifoldOf(A, B, SATLoops(A, B))

\* ------------------------------------------------------------ solver
\* the impulses of one contact point: [finite, impulses]; finite is FALSE
\* when a denominator is 0 (the quotient is not a finite float).  Each
\* local of the loop body is a parameter of the operator that goes on from it.
Perp(v) == Vec2(-v.y, v.x)

NoImpulse == [ finite |-> TRUE, impulses |-> << >> ]
NotFinite == [ finite |-> FALSE, impulses |-> << >> ]

impulseManifold(impulse, radiusA, radiusB) ==
    [ impulse |-> impulse, rA |-> radiusA, rB |-> radiusB ]

\* relativeVel, from rA and rB
RelativeVel(A, B, rA, rB) ==
    VSub(VAdd(B.linearVelocity, VScale(rB, B.angularVelocity)),
         VAdd(A.linearVelocity, VScale(rA, A.angularVelocity)))

\* denominator and denominatorTangential, from the two dot products
Denominator(A, B, rADot, rBDot) ==
    A.inverseMass + B.inverseMass
    + FMul(FMul(rADot, rADot), A.inverseInertia)
    + FMul(FMul(rBDot, rBDot), B.inverseInertia)

DenominatorAlong(A, B, radiusA, radiusB, dir) ==
    Denominator(A, B, Dot(Perp(radiusA), dir), Dot(Perp(radiusB), dir))

\* j = -(1 + e) * velAlongNormal / denominator / contactCount
NormalImpulse(A, B, contactCount, velAlongNormal, denominator) ==
    RDiv(FDiv(FMul(-(Scale + FMin(A.restitution, B.restitution)), velAlongNormal),
              denominator),
         contactCount)

\* jTangent = -dot(relativeVel, tangent) / denominatorTangential / contactCount
TangentImpulse(relativeVel, tangent, contactCount, denominatorTangential) ==
    RDiv(FDiv(-Dot(relativeVel, tangent), denominatorTangential), contactCount)

frictionImpulseOfA(A, B, tangent, j, jTangent) ==
    IF Abs(jTangent) <= FMul(j, A.staticFriction)
    THEN VScale(tangent, jTangent)
    ELSE VScale(VScale(VNeg(tangent), j), A.dynamicFriction)

frictionImpulse(A, B, tangent, j, jTangent) ==
    IF Abs(jTangent) <= FMul(j, FMin(A.staticFriction, B.staticFriction))
    THEN VScale(tangent, jTangent)
    ELSE VScale(VScale(VNeg(tangent), j), FMin(A.dynamicFriction, B.dynamicFriction))

BothImpulses(A, B, normal, radiusA, radiusB, tangent, j, jTangent) ==
    [ finite |-> TRUE,
      impulses |-> << impulseManifold(VScale(normal, j), radiusA, radiusB),
                      impulseManifold(frictionImpulse(A, B, tangent, j, jTangent),
                                      radiusA, radiusB) >> ]

WithFriction(A, B, normal, contactCount, radiusA, radiusB, relativeVel, velAlongNormal, tangent, denominator, denominatorTangential) ==
    IF denominator = 0 \/ denominatorTangential = 0 THEN NotFinite
    ELSE BothImpulses(A, B, normal, radiusA, radiusB, tangent,
           NormalImpulse(A, B, contactCount, velAlongNormal, denominator),
           TangentImpulse(relativeVel, tangent, contactCount, denominatorTangential))

WithoutFriction(A, B, normal, contactCount, radiusA, radiusB, velAlongNormal, denominator) ==
    IF denominator = 0 THEN NotFinite
    ELSE [ finite |-> TRUE,
           impulses |-> << impulseManifold(
               VScale(normal, NormalImpulse(A, B, contactCount, velAlongNormal, denominator)),
               radiusA, radiusB) >> ]

\* applyFriction is false when the tangent is closely zero; else the tangent
\* is normalised
WithTangent(A, B, normal, contactCount, radiusA, radiusB, relativeVel, velAlongNormal, tangent, denominator) ==
    IF FloatCloselyEqual(VLength(tangent), 0)
    THEN WithoutFriction(A, B, normal, contactCount, radiusA, radiusB, velAlongNormal,
                         denominator)
    ELSE WithFriction(A, B, normal, contactCount, radiusA, radiusB, relativeVel,
                      velAlongNormal, VNormalise(tangent), denominator,
                      DenominatorAlong(A, B, radiusA, radiusB, VNormalise(tangent)))

AlongNormalNoSkip(A, B, normal, contactCount, radiusA, radiusB, relativeVel, velAlongNormal) ==
    WithTangent(A, B, normal, contactCount, radiusA, radiusB, relativeVel,
                velAlongNormal,
                VSub(relativeVel, VScale(normal, velAlongNormal)),
                DenominatorAlong(A, B, radiusA, radiusB, normal))

\* if (velAlongNormal > 0) continue
AlongNormal(A, B, normal, contactCount, radiusA, radiusB, relativeVel, velAlongNormal) ==
    IF velAlongNormal > 0 THEN NoImpulse
    ELSE WithTangent(A, B, normal, contactCount, radiusA, radiusB, relativeVel,
                     velAlongNormal,
                     VSub(relativeVel, VScale(normal, velAlongNormal)),
                     DenominatorAlong(A, B, radiusA, radiusB, normal))

AtRadii(A, B, normal, contactCount, radiusA, radiusB) ==
    AlongNormal(A, B, normal, contactCount, radiusA, radiusB,
                RelativeVel(A, B, Perp(radiusA), Perp(radiusB)),
                Dot(RelativeVel(A, B, Perp(radiusA), Perp(radiusB)), normal))

ContactImpulses(A, B, normal, contact, contactCount) ==
    AtRadii(A, B, normal, contactCount,
            VSub(contact, A.position), VSub(contact, B.position))

ApplyImpulseBothMinus(d, A, B) ==
    [ finite |-> TRUE,
      A |-> [ A EXCEPT
        !.linearVelocity = VSub(A.linearVelocity, VScale(d.impulse, A.inverseMass)),
        !.angularVelocity = A.angularVelocity
             + FMul(-Cross(d.rA, d.impulse), A.inverseInertia) ],
      B |-> [ B EXCEPT
        !.linearVelocity = VSub(B.linearVelocity, VScale(d.impulse, B.inverseMass)),
        !.angularVelocity = B.angularVelocity
             + FMul(Cross(d.rB, d.impulse), B.inverseInertia) ] ]

\* one turn of the apply loop
ApplyImpulse(d, A, B) ==
    [ finite |-> TRUE,
      A |-> [ A EXCEPT
        !.linearVelocity = VSub(A.linearVelocity, VScale(d.impulse, A.inverseMass)),
        !.angularVelocity = A.angularVelocity
             + FMul(-Cross(d.rA, d.impulse), A.inverseInertia) ],
      B |-> [ B EXCEPT
        !.linearVelocity = VAdd(B.linearVelocity, VScale(d.impulse, B.inverseMass)),
        !.angularVelocity = B.angularVelocity
             + FMul(Cross(d.rB, d.impulse), B.inverseInertia) ] ]

\* the apply pass: every recorded impulse, in order, on the pair [A, B]
RECURSIVE ApplyImpulses(_, _, _)
ApplyImpulses(impulses, k, ab) ==
    IF k > Len(impulses) THEN ab
    ELSE ApplyImpulses(impulses, k + 1, ApplyImpulse(impulses[k], ab.A, ab.B))

ResolveWith(A, B, c1, c2) ==
    IF c1.finite /\ c2.finite
    THEN ApplyImpulses(c1.impulses \o c2.impulses, 1,
                       [ finite |-> TRUE, A |-> A, B |-> B ])
    ELSE [ finite |-> FALSE, A |-> A, B |-> B ]

\* resolveCollision: the impulses of contact1 and contact2 are computed from
\* the velocities at entry, then applied: [finite, A, B]
resolveCollision(m, A, B) ==
    ResolveWith(A, B,
        IF m.contactCount >= 1
        THEN ContactImpulses(A, B, m.normal, m.contact1, m.contactCount)
        ELSE NoImpulse,
        IF m.contactCount >= 2
        THEN ContactImpulses(A, B, m.normal, m.contact2, m.contactCount)
        ELSE NoImpulse)

\* positional correction: percent = 0.8, slop = 0.01; what narrowPhase
\* leaves behind it, [finite, resolved, A, B]
Percent == 80
Slop == 1

CorrectByStaticToo(A, B, correction) ==
    [ finite |-> TRUE,
      resolved |-> TRUE,
      A |-> [ A EXCEPT !.position = VSub(A.position, VScale(correction, A.inverseMass)),
                       !.update = TRUE ],
      B |-> [ B EXCEPT !.position = VAdd(B.position, VScale(correction, B.inverseMass)),
                       !.update = TRUE ] ]

CorrectBy(A, B, correction) ==
    [ finite |-> TRUE,
      resolved |-> TRUE,
      A |-> IF ~A.isStatic
            THEN [ A EXCEPT !.position = VSub(A.position, VScale(correction, A.inverseMass)),
                            !.update = TRUE ]
            ELSE A,
      B |-> IF ~B.isStatic
            THEN [ B EXCEPT !.position = VAdd(B.position, VScale(correction, B.inverseMass)),
                            !.update = TRUE ]
            ELSE B ]

positionalCorrection(m, A, B) ==
    IF A.inverseMass + B.inverseMass > 0
    THEN CorrectBy(A, B,
           VScale(m.normal,
                  FMul(FDiv(FMax(m.penetration - Slop, 0), A.inverseMass + B.inverseMass),
                       Percent)))
    ELSE [ finite |-> TRUE, resolved |-> TRUE, A |-> A, B |-> B ]

NarrowResolved(A, B, m, r) ==
    IF r.finite THEN positionalCorrection(m, r.A, r.B)
    ELSE [ finite |-> FALSE, resolved |-> TRUE, A |-> A, B |-> B ]

NarrowWith(A, B, m) ==
    IF ~m.inCollision THEN [ finite |-> TRUE, resolved |-> FALSE, A |-> A, B |-> B ]
    ELSE NarrowResolved(A, B, m, resolveCollision(m, A, B))

\* narrowPhase(A, B, stats): [finite, resolved, A, B]
narrowPhase(A, B) == NarrowWith(A, B, SATCollision(A, B))

\* ------------------------------------------------------------ world
\* World: solverIterations, gravity, m_yBounds
SolverIterations == 10
Gravity == Vec2(0, -981)
YBounds == 100 * Scale

\* the values the host passes: the frame time handed to step, the poses
\* and sizes main() and the mouse callback use
Dts == { 10 }
HostPositions == { Vec2(0, 140) }
ClickPositions == { Vec2(60, 230), Vec2(0, -10200) }
BoxSizes == { << 600, 100 >> }
HostMasses == { 200 }

\* the iteration orders of the bucket map a build may have
BucketOrders == { "ascending", "descending" }

VARIABLES
    bodies,     \* World::m_bodies
    staged,     \* main()'s local RigidBody being configured: << >> or << body >>
    pc,         \* where main / renderLoop / step stands
    iter,       \* the solver-iteration counter of step
    aabbs,      \* broadPhase's aabbs
    pairs,      \* broadPhase's candidate pairs
    pk,         \* position of broadPhase's loop over pairs
    stats,      \* World::m_stats
    nextId,     \* the identity the next pushed body gets
    grid,       \* a call of buildPairsFromAABBs on its own
    sat,        \* a call of SATCollision on its own
    solver,     \* a call of resolveCollision on its own
    made,       \* a RigidBody under construction and the host's mutators, on its own
    bucketOrder \* the iteration order of the bucket map in this build

vars == << bodies, staged, pc, iter, aabbs, pairs, pk, stats, nextId, grid, sat,
          solver, made, bucketOrder >>
worldVars == << bodies, staged, pc, iter, aabbs, pairs, pk, stats, nextId >>

GridIdle == [ pc |-> "idle" ]
SatIdle == [ pc |-> "idle" ]
SolverIdle == [ pc |-> "idle" ]
MadeIdle == [ pc |-> "idle" ]

ZeroStats ==
    [ bodyUpdates |-> 0, broadChecks |-> 0, narrowChecks |-> 0,
      contactsResolved |-> 0, steps |-> 0 ]

Init ==
    /\ bodies = << >>
    /\ staged = << >>
    /\ pc = "setup"
    /\ iter = 0
    /\ aabbs = << >>
    /\ pairs = << >>
    /\ pk = 0
    /\ stats = ZeroStats
    /\ nextId = 1
    /\ grid = GridIdle
    /\ sat = SatIdle
    /\ solver = SolverIdle
    /\ made = MadeIdle
    /\ bucketOrder \in BucketOrders

\* ---- main(): build a body in a local, configure it, push a copy
HostConstructPolygon(n, r, m) ==
    /\ pc = "setup" /\ staged = << >> /\ Len(bodies) < MaxSetupBodies
    /\ staged' = << RigidBodyPolygon(n, r, m) >>
    /\ UNCHANGED << bodies, pc, iter, aabbs, pairs, pk, stats, nextId, grid, sat, solver, made, bucketOrder >>

HostConstructBox(w, h) ==
    /\ pc = "setup" /\ staged = << >> /\ Len(bodies) < MaxSetupBodies
    /\ staged' = << setBoxVertices(DefaultBody, w, h) >>
    /\ UNCHANGED << bodies, pc, iter, aabbs, pairs, pk, stats, nextId, grid, sat, solver, made, bucketOrder >>

HostSnapTo(p) ==
    /\ pc = "setup" /\ staged # << >>
    /\ staged' = << snapTo(staged[1], p) >>
    /\ UNCHANGED << bodies, pc, iter, aabbs, pairs, pk, stats, nextId, grid, sat, solver, made, bucketOrder >>

HostSetStatic ==
    /\ pc = "setup" /\ staged # << >>
    /\ staged' = << [ staged[1] EXCEPT !.isStatic = TRUE ] >>
    /\ UNCHANGED << bodies, pc, iter, aabbs, pairs, pk, stats, nextId, grid, sat, solver, made, bucketOrder >>

HostSetMass(m) ==
    /\ pc = "setup" /\ staged # << >>
    /\ staged' = << [ staged[1] EXCEPT !.mass = m ] >>
    /\ UNCHANGED << bodies, pc, iter, aabbs, pairs, pk, stats, nextId, grid, sat, solver, made, bucketOrder >>

HostPush ==
    /\ pc = "setup" /\ staged # << >>
    /\ bodies' = Append(bodies, [ staged[1] EXCEPT !.id = nextId ])
    /\ nextId' = nextId + 1
    /\ staged' = << >>
    /\ UNCHANGED << pc, iter, aabbs, pairs, pk, stats, grid, sat, solver, made, bucketOrder >>

\* gfx.renderLoop() is entered
HostRunLoop ==
    /\ pc = "setup" /\ staged = << >>
    /\ pc' = "render"
    /\ UNCHANGED << bodies, staged, iter, aabbs, pairs, pk, stats, nextId, grid, sat, solver, made, bucketOrder >>

\* ---- Visuals::renderLoop, one frame: draw, poll events, step
\* drawRigidBody of every body: reads transformedVertices, writes nothing
Render ==
    /\ pc = "render" /\ stats.steps < MaxSteps
    /\ pc' = "poll"
    /\ UNCHANGED << bodies, staged, iter, aabbs, pairs, pk, stats, nextId, grid, sat, solver, made, bucketOrder >>

\* glfwWindowShouldClose: the loop is left
CloseWindow ==
    /\ pc = "render"
    /\ pc' = "closed"
    /\ UNCHANGED << bodies, staged, iter, aabbs, pairs, pk, stats, nextId, grid, sat, solver, made, bucketOrder >>

MouseButtonCallbackInStep(worldPos) ==
    /\ pc \in { "poll", "pairs" } /\ Len(bodies) < MaxBodies
    /\ bodies' = Append(bodies, [ snapTo(RigidBodyPolygon(4, Scale, 2 * Scale), worldPos) EXCEPT
                                    !.update = TRUE, !.restitution = 20, !.id = nextId ])
    /\ nextId' = nextId + 1
    /\ UNCHANGED << staged, pc, iter, aabbs, pairs, pk, stats, grid, sat, solver, made, bucketOrder >>

\* Visuals::mouseButtonCallback, run from glfwPollEvents
MouseButtonCallback(worldPos) ==
    /\ pc = "poll" /\ Len(bodies) < MaxBodies
    /\ LET body == [ snapTo(RigidBodyPolygon(4, Scale, 2 * Scale), worldPos) EXCEPT
                       !.update = TRUE, !.restitution = 20, !.id = nextId ]
       IN  bodies' = Append(bodies, body)
    /\ nextId' = nextId + 1
    /\ UNCHANGED << staged, pc, iter, aabbs, pairs, pk, stats, grid, sat, solver, made, bucketOrder >>

\* the body of step's integration loop
IntegrateBody(body, dt) ==
    IF ~body.isStatic
    THEN LET v == VAdd(body.linearVelocity, VScale(Gravity, dt))
         IN  [ body EXCEPT
                 !.linearAcceleration = Gravity,
                 !.linearVelocity = v,
                 !.position = VAdd(body.position, VScale(v, dt)),
                 !.rotation = body.rotation + FMul(body.angularVelocity, dt),
                 !.update = TRUE ]
    ELSE body

\* glfwPollEvents has returned and world.step(dt) runs its integration loop
Integrate(dt) ==
    /\ pc = "poll"
    /\ bodies' = [ k \in 1..Len(bodies) |-> IntegrateBody(bodies[k], dt) ]
    /\ stats' = [ stats EXCEPT !.bodyUpdates =
                    @ + Cardinality({ k \in 1..Len(bodies) : ~bodies[k].isStatic }) ]
    /\ pc' = "cull"
    /\ UNCHANGED << staged, iter, aabbs, pairs, pk, nextId, grid, sat, solver, made, bucketOrder >>

\* the erase / remove_if of step
Culled(body) == body.position.y < -YBounds

CullWhileTesting ==
    /\ pc \in { "cull", "pairs" }
    /\ bodies' = IF pc = "cull" THEN bodies
                 ELSE SelectSeq(bodies, LAMBDA body : ~Culled(body))
    /\ iter' = IF pc = "cull" THEN 0 ELSE iter
    /\ pc' = IF pc = "cull" THEN "broad" ELSE pc
    /\ UNCHANGED << staged, aabbs, pairs, pk, stats, nextId, grid, sat, solver, made, bucketOrder >>

CullDynamic ==
    /\ pc = "cull"
    /\ bodies' = SelectSeq(bodies, LAMBDA body : body.isStatic \/ ~Culled(body))
    /\ iter' = 0
    /\ pc' = "broad"
    /\ UNCHANGED << staged, aabbs, pairs, pk, stats, nextId, grid, sat, solver, made, bucketOrder >>

Cull ==
    /\ pc = "cull"
    /\ bodies' = SelectSeq(bodies, LAMBDA body : ~Culled(body))
    /\ iter' = 0
    /\ pc' = "broad"
    /\ UNCHANGED << staged, aabbs, pairs, pk, stats, nextId, grid, sat, solver, made, bucketOrder >>

\* the order in which the bucket map hands out its keys.  The order of an
\* unordered_map is unspecified but fixed by the library the program is
\* built with: it is drawn once, in Init, and every call of
\* buildPairsFromAABBs of the run follows it (BucketOrders)
KeyLess(a, b) == a[1] < b[1] \/ (a[1] = b[1] /\ a[2] < b[2])

RECURSIVE SortedKeys(_, _)
SortedKeys(keys, policy) ==
    IF keys = {} THEN << >>
    ELSE LET first == CHOOSE k \in keys : \A o \in keys \ { k } :
                          IF policy = "ascending" THEN KeyLess(k, o) ELSE KeyLess(o, k)
         IN  << first >> \o SortedKeys(keys \ { first }, policy)

KeyOrder(boxes, cellSize, policy) == SortedKeys(BucketKeys(boxes, cellSize), policy)

\* broadPhase up to its loop over the pairs: every cache rebuilt, every AABB
\* taken, the candidate pairs built
BroadPhaseBuild ==
    /\ pc = "broad"
    /\ bodies' = [ k \in 1..Len(bodies) |-> worldSpace(bodies[k]) ]
    /\ aabbs' = [ k \in 1..Len(bodies) |-> getAABB(bodies'[k]) ]
    /\ pairs' = buildPairsFromAABBs(aabbs', CellSize,
                                     KeyOrder(aabbs', CellSize, bucketOrder))
    /\ pk' = 1
    /\ pc' = "pairs"
    /\ UNCHANGED << staged, iter, stats, nextId, grid, sat, solver, made, bucketOrder >>

\* the pair the loop of broadPhase stands at
AtPair == pc = "pairs" /\ pk <= Len(pairs)
PairA == bodies[pairs[pk][1]]
PairB == bodies[pairs[pk][2]]

ReachesNarrowStaticToo ==
    AtPair /\ AABBintersection(aabbs[pairs[pk][1]], aabbs[pairs[pk][2]])

\* the pair goes on to narrowPhase: not both static, AABBs intersecting
ReachesNarrow ==
    /\ AtPair
    /\ ~(PairA.isStatic /\ PairB.isStatic)
    /\ AABBintersection(aabbs[pairs[pk][1]], aabbs[pairs[pk][2]])

\* one turn of the loop that ends at a continue
SkipPair ==
    /\ AtPair /\ ~ReachesNarrow
    /\ stats' = [ stats EXCEPT !.broadChecks = @ + 1 ]
    /\ pk' = pk + 1
    /\ UNCHANGED << bodies, staged, pc, iter, aabbs, pairs, nextId, grid, sat, solver, made, bucketOrder >>

NarrowPairWithCountedOnMiss(i, j, r) ==
    /\ bodies' = [ bodies EXCEPT ![i] = r.A, ![j] = r.B ]
    /\ stats' = [ stats EXCEPT
                    !.broadChecks = @ + 1,
                    !.contactsResolved = @ + (IF r.resolved THEN 1 ELSE 0),
                    !.narrowChecks = @ + (IF r.resolved THEN 0 ELSE 1) ]
    /\ pc' = IF r.finite THEN "pairs" ELSE "nonfinite"

\* one turn of the loop that calls narrowPhase, r being what it returns
NarrowPairWith(i, j, r) ==
    /\ bodies' = [ bodies EXCEPT ![i] = r.A, ![j] = r.B ]
    /\ stats' = [ stats EXCEPT
                    !.broadChecks = @ + 1,
                    !.contactsResolved = @ + (IF r.resolved THEN 1 ELSE 0),
                    !.narrowChecks = @ + 1 ]
    /\ pc' = IF r.finite THEN "pairs" ELSE "nonfinite"

NarrowPair ==
    /\ ReachesNarrow
    /\ NarrowPairWith(pairs[pk][1], pairs[pk][2], narrowPhase(PairA, PairB))
    /\ pk' = pk + 1
    /\ UNCHANGED << staged, iter, aabbs, pairs, nextId, grid, sat, solver, made, bucketOrder >>

BroadPhaseReturnOnce ==
    /\ pc = "pairs" /\ pk > Len(pairs)
    /\ iter' = iter + 1
    /\ pc' = "stepEnd"
    /\ UNCHANGED << bodies, staged, aabbs, pairs, pk, stats, nextId, grid, sat, solver, made, bucketOrder >>

\* broadPhase returns {false, false}; step adds both to the counters and
\* goes to the next solver iteration
BroadPhaseReturn ==
    /\ pc = "pairs" /\ pk > Len(pairs)
    /\ iter' = iter + 1
    /\ pc' = IF iter + 1 < SolverIterations THEN "broad" ELSE "stepEnd"
    /\ UNCHANGED << bodies, staged, aabbs, pairs, pk, stats, nextId, grid, sat, solver, made, bucketOrder >>

\* m_stats.steps++ and step returns to renderLoop
StepReturn ==
    /\ pc = "stepEnd"
    /\ stats' = [ stats EXCEPT !.steps = @ + 1 ]
    /\ pc' = "render"
    /\ UNCHANGED << bodies, staged, iter, aabbs, pairs, pk, nextId, grid, sat, solver, made, bucketOrder >>

Next ==
    \/ \E m \in HostMasses : HostConstructPolygon(4, Scale, m)
    \/ \E wh \in BoxSizes : HostConstructBox(wh[1], wh[2])
    \/ \E p \in HostPositions : HostSnapTo(p)
    \/ HostSetStatic
    \/ \E m \in HostMasses : HostSetMass(m)
    \/ HostPush
    \/ HostRunLoop
    \/ Render
    \/ CloseWindow
    \/ \E p \in ClickPositions : MouseButtonCallback(p)
    \/ \E dt \in Dts : Integrate(dt)
    \/ Cull
    \/ BroadPhaseBuild
    \/ SkipPair
    \/ NarrowPair
    \/ BroadPhaseReturn
    \/ StepReturn

Spec == Init /\ [][Next]_vars

\* ------------------------------------------------------------ SATCollision on its own
\* the pairs SATCollision is called on: bodies without vertices, boxes and
\* diamonds, with caches rebuilt, apart, touching and overlapping
SatBox(p, rot) ==
    worldSpace(rotate(snapTo(setBoxVertices(DefaultBody, 2 * Scale, 2 * Scale), p), rot))
SatDiamond(p) == worldSpace(snapTo(RigidBodyPolygon(4, Scale, 2 * Scale), p))

SatBodies ==
    { DefaultBody, RigidBodyPolygon(2, Scale, Scale) }
    \cup { SatBox(Vec2(x, 0), 0) : x \in { 0, 100, 200, 500 } }
    \cup { SatBox(Vec2(-200, 0), 0), SatBox(Vec2(0, 150), 79) }
    \cup { SatDiamond(Vec2(0, 200)), SatDiamond(Vec2(150, 0)) }

\* what a build may make of SATLoop reading the first vertex of an empty
\* cache, short of stopping the program
AnyLoopOutcome ==
    [ inCollision : BOOLEAN, penetration : { 0, Scale },
      normal : { Vec2(Scale, 0), Vec2(-Scale, 0) } ]

InitSAT ==
    /\ bodies = << >> /\ staged = << >> /\ pc = "idle" /\ iter = 0
    /\ aabbs = << >> /\ pairs = << >> /\ pk = 0 /\ stats = ZeroStats
    /\ nextId = 1 /\ grid = GridIdle /\ bucketOrder = "ascending"
    /\ solver = SolverIdle /\ made = MadeIdle
    /\ \E a \in SatBodies, b \in SatBodies :
          sat = [ pc |-> "call", A |-> a, B |-> b,
                  inCollision |-> TRUE, penetration |-> Infinity,
                  normal |-> Vec2(0, 0), contactData |-> NoContacts,
                  manifold |-> Manifold([ penetration |-> Infinity, inCollision |-> TRUE ],
                                        Vec2(0, 0), NoContacts) ]

\* the two SATLoop calls
SATRunLoops ==
    /\ sat.pc = "call"
    /\ IF SATLoopDefined(sat.A, sat.B) /\ SATLoopDefined(sat.B, sat.A)
       THEN LET r == SATLoops(sat.A, sat.B)
            IN  sat' = [ sat EXCEPT !.pc = "loops", !.inCollision = r.inCollision,
                                    !.penetration = r.penetration, !.normal = r.normal ]
       ELSE \/ sat' = [ sat EXCEPT !.pc = "crash" ]
            \/ \E o \in AnyLoopOutcome :
                  sat' = [ sat EXCEPT !.pc = "loops", !.inCollision = o.inCollision,
                                      !.penetration = o.penetration, !.normal = o.normal ]
    /\ UNCHANGED << worldVars, grid, solver, made, bucketOrder >>

\* if (inCollision) { if (dot(normal, B.position - A.position) < 0) normal = -normal;
SATOrient ==
    /\ sat.pc = "loops"
    /\ sat' = [ sat EXCEPT !.pc = "oriented",
                  !.normal = IF sat.inCollision
                             THEN OrientNormal(sat.normal, sat.A, sat.B) ELSE @ ]
    /\ UNCHANGED << worldVars, grid, solver, made, bucketOrder >>

\* contactData = getContactPoints(A, B); }
SATContacts ==
    /\ sat.pc = "oriented"
    /\ sat' = [ sat EXCEPT !.pc = "contacts",
                  !.contactData = IF sat.inCollision
                                  THEN getContactPoints(sat.A, sat.B) ELSE @ ]
    /\ UNCHANGED << worldVars, grid, solver, made, bucketOrder >>

\* the manifold is built and returned
SATReturn ==
    /\ sat.pc = "contacts"
    /\ sat' = [ sat EXCEPT !.pc = "done",
                  !.manifold = Manifold(sat, sat.normal, sat.contactData) ]
    /\ UNCHANGED << worldVars, grid, solver, made, bucketOrder >>

NextSAT == SATRunLoops \/ SATOrient \/ SATContacts \/ SATReturn

SpecSAT == InitSAT /\ [][NextSAT]_vars

\* ------------------------------------------------------------ resolveCollision on its own
\* the bodies resolveCollision is called on.  A dynamic body is built by
\* the polygon constructor (as main's t4 and the mouse callback's body) and
\* keeps its diamond or is given box vertices; the static floor is a
\* default-constructed box with isStatic set (as main's floor).  Velocity
\* and restitution are written to the public fields, as main does.
WithMotion(body, p, v, w, e) ==
    worldSpace([ snapTo(body, p) EXCEPT !.linearVelocity = v, !.angularVelocity = w,
                                        !.restitution = e ])

DynamicBox(m) == setBoxVertices(RigidBodyPolygon(4, Scale, m), 2 * Scale, 2 * Scale)
DynamicDiamond(m) == RigidBodyPolygon(4, Scale, m)
StaticFloor == [ setBoxVertices(DefaultBody, 6 * Scale, Scale) EXCEPT !.isStatic = TRUE ]

\* the friction coefficients main writes to its bodies, in place of the defaults
MainFriction(body) == [ body EXCEPT !.dynamicFriction = 90, !.staticFriction = 80 ]

\* the bodies lying low (the floor at the origin, a box at the origin) and
\* the bodies lying on them, 0.1 deep
LowerBodies(e) ==
    { WithMotion(StaticFloor, Vec2(0, 0), Vec2(0, 0), 0, e),
      WithMotion(MainFriction(DynamicBox(200)), Vec2(0, -50), Vec2(0, 100), 0, e) }
    \cup { WithMotion(DynamicBox(m), Vec2(0, -50), v, 0, e) :
             m \in { 100, 200 }, v \in { Vec2(0, 100), Vec2(0, -100) } }

UpperBodies(e) ==
    { WithMotion(shape, Vec2(0, 140), v, w, e) :
        shape \in { DynamicBox(200), DynamicDiamond(200), DynamicDiamond(100),
                    MainFriction(DynamicDiamond(200)), MainFriction(DynamicBox(200)) },
        v \in { Vec2(0, -100), Vec2(0, 100), Vec2(50, -100) }, w \in { 0, 200 } }

SolverPairs ==
    UNION { ({ << lo, up >> : lo \in LowerBodies(e), up \in UpperBodies(e) }
             \cup { << up, lo >> : lo \in LowerBodies(e), up \in UpperBodies(e) })
            : e \in { 0, 20, 100 } }

\* narrowPhase hands resolveCollision the manifold of a pair in collision
InitResolve ==
    /\ bodies = << >> /\ staged = << >> /\ pc = "idle" /\ iter = 0
    /\ aabbs = << >> /\ pairs = << >> /\ pk = 0 /\ stats = ZeroStats
    /\ nextId = 1 /\ grid = GridIdle /\ sat = SatIdle /\ made = MadeIdle
    /\ bucketOrder = "ascending"
    /\ \E ab \in SolverPairs :
          /\ SATCollision(ab[1], ab[2]).inCollision
          /\ solver = [ pc |-> "entry", A |-> ab[1], B |-> ab[2],
                        entryA |-> ab[1], entryB |-> ab[2],
                        manifold |-> SATCollision(ab[1], ab[2]),
                        contacts |-> << >>, k |-> 1,
                        impulses |-> << >>, origin |-> << >> ]

\* the contacts vector: contact1 when contactCount >= 1, contact2 when >= 2
ResolveGather ==
    /\ solver.pc = "entry"
    /\ solver' = [ solver EXCEPT
          !.pc = "contacts",
          !.contacts = (IF solver.manifold.contactCount >= 1
                        THEN << solver.manifold.contact1 >> ELSE << >>)
                       \o (IF solver.manifold.contactCount >= 2
                           THEN << solver.manifold.contact2 >> ELSE << >>) ]
    /\ UNCHANGED << worldVars, grid, sat, made, bucketOrder >>

ResolveContactApplying ==
    /\ solver.pc = "contacts" /\ solver.k <= Len(solver.contacts)
    /\ \E c \in { ContactImpulses(solver.A, solver.B, solver.manifold.normal,
                                   solver.contacts[solver.k],
                                   solver.manifold.contactCount) } :
          solver' = IF c.finite
                    THEN [ solver EXCEPT
                             !.k = @ + 1,
                             !.A = ApplyImpulses(c.impulses, 1,
                                     [ finite |-> TRUE, A |-> solver.A, B |-> solver.B ]).A,
                             !.B = ApplyImpulses(c.impulses, 1,
                                     [ finite |-> TRUE, A |-> solver.A, B |-> solver.B ]).B ]
                    ELSE [ solver EXCEPT !.pc = "nonfinite" ]
    /\ UNCHANGED << worldVars, grid, sat, made, bucketOrder >>

\* one turn of the loop over the contacts, c being the impulses it pushes;
\* origin remembers the contact each impulse was pushed for
ResolveContact ==
    /\ solver.pc = "contacts" /\ solver.k <= Len(solver.contacts)
    /\ \E c \in { ContactImpulses(solver.A, solver.B, solver.manifold.normal,
                                   solver.contacts[solver.k],
                                   solver.manifold.contactCount) } :
          solver' = IF c.finite
                    THEN [ solver EXCEPT
                             !.k = @ + 1,
                             !.impulses = @ \o c.impulses,
                             !.origin = @ \o [ n \in 1..Len(c.impulses) |-> solver.k ] ]
                    ELSE [ solver EXCEPT !.pc = "nonfinite" ]
    /\ UNCHANGED << worldVars, grid, sat, made, bucketOrder >>

\* the loop over the contacts is left for the loop over the impulses
ResolveContactsDone ==
    /\ solver.pc = "contacts" /\ solver.k > Len(solver.contacts)
    /\ solver' = [ solver EXCEPT !.pc = "apply", !.k = 1 ]
    /\ UNCHANGED << worldVars, grid, sat, made, bucketOrder >>

\* one turn of the loop over the impulses
ResolveApply ==
    /\ solver.pc = "apply" /\ solver.k <= Len(solver.impulses)
    /\ \E ab \in { ApplyImpulse(solver.impulses[solver.k], solver.A, solver.B) } :
          solver' = [ solver EXCEPT !.A = ab.A, !.B = ab.B, !.k = @ + 1 ]
    /\ UNCHANGED << worldVars, grid, sat, made, bucketOrder >>

ResolveReturn ==
    /\ solver.pc = "apply" /\ solver.k > Len(solver.impulses)
    /\ solver' = [ solver EXCEPT !.pc = "done" ]
    /\ UNCHANGED << worldVars, grid, sat, made, bucketOrder >>

NextResolve ==
    \/ ResolveGather
    \/ ResolveContact
    \/ ResolveContactsDone
    \/ ResolveApply
    \/ ResolveReturn

SpecResolve == InitResolve /\ [][NextResolve]_vars

\* ------------------------------------------------------------ the spatial hash on its own
\* the candidate lists of one step over a list of AABBs that stays as it is
\* from one solver iteration to the next
MaxAABBs == 3

Box(x0, y0, x1, y1) == [ min |-> Vec2(x0, y0), max |-> Vec2(x1, y1) ]

\* boxes that overlap over several cells, touch at an edge or a corner,
\* share a cell without overlapping, or lie apart
GridBoxes ==
    { Box(-50, 0, 50, 100), Box(50, 100, 250, 150),
      Box(150, 150, 250, 250), Box(-450, -450, -250, -250) }

GridInputs ==
    UNION { [ 1..n -> GridBoxes ] : n \in 0..MaxAABBs }

IndexPairs(n) == { p \in (1..n) \X (1..n) : p[1] < p[2] }

InitGrid ==
    /\ bodies = << >> /\ staged = << >> /\ pc = "idle" /\ iter = 0
    /\ aabbs = << >> /\ pairs = << >> /\ pk = 0 /\ stats = ZeroStats
    /\ nextId = 1 /\ sat = SatIdle /\ bucketOrder = "ascending"
    /\ solver = SolverIdle /\ made = MadeIdle
    /\ \E input \in GridInputs :
          grid = [ pc |-> "call", aabbs |-> input, remaining |-> {},
                   seen |-> {}, pairs |-> << >>, pass |-> 0,
                   listed |-> [ p \in IndexPairs(Len(input)) |-> 0 ] ]

\* buildPairsFromAABBs is entered: every index is put into the bucket of
\* every cell its AABB covers
GridInsert ==
    /\ grid.pc = "call"
    /\ grid' = [ grid EXCEPT !.pc = "visit",
                   !.remaining = BucketKeys(grid.aabbs, CellSize),
                   !.seen = {}, !.pairs = << >> ]
    /\ UNCHANGED << worldVars, sat, solver, made, bucketOrder >>

\* one turn of the loop over the buckets, at whichever bucket the map
\* hands out next
GridVisit(key) ==
    /\ grid.pc = "visit" /\ key \in grid.remaining
    /\ LET st == VisitBucket(BucketOf(grid.aabbs, CellSize, key),
                             [ seen |-> grid.seen, pairs |-> grid.pairs ])
       IN  grid' = [ grid EXCEPT !.remaining = @ \ { key },
                       !.seen = st.seen, !.pairs = st.pairs ]
    /\ UNCHANGED << worldVars, sat, solver, made, bucketOrder >>

\* return pairs: the list is the candidate list of this solver iteration
GridReturn ==
    /\ grid.pc = "visit" /\ grid.remaining = {}
    /\ grid' = [ grid EXCEPT !.pc = "done", !.pass = @ + 1,
                   !.listed = [ p \in DOMAIN @ |->
                       @[p] + Cardinality({ k \in 1..Len(grid.pairs) :
                                              pairKey(grid.pairs[k][1], grid.pairs[k][2]) = p }) ] ]
    /\ UNCHANGED << worldVars, sat, solver, made, bucketOrder >>

\* step goes to its next solver iteration and broadPhase builds the list anew
GridNextPass ==
    /\ grid.pc = "done" /\ grid.pass < SolverIterations
    /\ grid' = [ grid EXCEPT !.pc = "call" ]
    /\ UNCHANGED << worldVars, sat, solver, made, bucketOrder >>

NextGrid ==
    \/ GridInsert
    \/ \E key \in grid.remaining : GridVisit(key)
    \/ GridReturn
    \/ GridNextPass

SpecGrid == InitGrid /\ [][NextGrid]_vars

\* ------------------------------------------------------------ the row of bodies of main
\* The bodies main pushes in its loop, and the candidate list the first
\* broadPhase builds over them.  RowBodies is the number of turns of the
\* loop; the bodies are laid out as main lays them out (x = -20, y stepping
\* by 1/50) or along x (x stepping by 1/50 from -20, y = 0).
RowBodies == 50

\* one turn of the loop of main: RigidBody t4(4, 1.0, 2.0), snapTo, rotate
\* (the rotation 1.5708 * 1.5 on the grid) and the material and velocity
RowBody(pos) ==
    [ rotate(snapTo(RigidBodyPolygon(4, Scale, 2 * Scale), pos), 236) EXCEPT
        !.dynamicFriction = 90, !.staticFriction = 80, !.restitution = 20,
        !.linearVelocity = Vec2(20 * Scale, 0) ]

RowPosition(layout, i) ==
    IF layout = "column" THEN Vec2(-20 * Scale, RDiv(i * Scale, 50))
    ELSE Vec2(-20 * Scale + RDiv(i * Scale, 50), 0)

InitRow ==
    /\ bodies = << >> /\ staged = << >> /\ pc = "idle" /\ iter = 0
    /\ aabbs = << >> /\ pairs = << >> /\ pk = 0 /\ stats = ZeroStats
    /\ nextId = 1 /\ sat = SatIdle /\ bucketOrder = "ascending"
    /\ solver = SolverIdle /\ made = MadeIdle
    /\ \E n \in 2..RowBodies, layout \in { "column", "row" } :
          grid = [ pc |-> "main", n |-> n, layout |-> layout,
                   bodies |-> << >>, aabbs |-> << >>, pairs |-> << >> ]

\* the loop of main has pushed its n bodies
RowPush ==
    /\ grid.pc = "main"
    /\ grid' = [ grid EXCEPT !.pc = "pushed",
                   !.bodies = [ k \in 1..grid.n |->
                                  RowBody(RowPosition(grid.layout, k - 1)) ] ]
    /\ UNCHANGED << worldVars, sat, solver, made, bucketOrder >>

\* broadPhase: every cache rebuilt and every AABB taken
RowAABBs ==
    /\ grid.pc = "pushed"
    /\ grid' = [ grid EXCEPT !.pc = "boxes",
                   !.aabbs = [ k \in 1..grid.n |-> getAABB(worldSpace(grid.bodies[k])) ] ]
    /\ UNCHANGED << worldVars, sat, solver, made, bucketOrder >>

\* broadPhase: the candidate pairs built over the AABBs
RowBuildPairs ==
    /\ grid.pc = "boxes"
    /\ grid' = [ grid EXCEPT !.pc = "listed",
                   !.pairs = buildPairsFromAABBs(grid.aabbs, CellSize,
                                KeyOrder(grid.aabbs, CellSize, bucketOrder)) ]
    /\ UNCHANGED << worldVars, sat, solver, made, bucketOrder >>

NextRow ==
    \/ RowPush
    \/ RowAABBs
    \/ RowBuildPairs

SpecRow == InitRow /\ [][NextRow]_vars

\* ------------------------------------------------------------ World::step on its own
\* One call of step on a world the host has filled: static boxes inside the
\* bounds, on the bound and below it, a polygon above them, a polygon that
\* integration takes below the bound, and polygons beside the box whose
\* AABB touches the AABB of the box or shares a cell with it without touching.
StepBox(pos) ==
    [ worldSpace(snapTo(setBoxVertices(DefaultBody, 6 * Scale, Scale), pos)) EXCEPT
        !.isStatic = TRUE ]

StepPolygon(pos) == worldSpace(snapTo(RigidBodyPolygon(4, Scale, 2 * Scale), pos))

StepBodies ==
    { StepBox(Vec2(0, 0)), StepBox(Vec2(0, -YBounds)), StepBox(Vec2(0, -YBounds - 200)),
      StepPolygon(Vec2(0, 140)), StepPolygon(Vec2(3 * Scale, 5 - YBounds)),
      StepPolygon(Vec2(4 * Scale, 0)), StepPolygon(Vec2(450, 0)) }

InitStep ==
    /\ staged = << >> /\ pc = "poll" /\ iter = 0
    /\ aabbs = << >> /\ pairs = << >> /\ pk = 0 /\ stats = ZeroStats
    /\ grid = GridIdle /\ sat = SatIdle /\ solver = SolverIdle /\ made = MadeIdle
    /\ bucketOrder = "ascending"
    /\ \E n \in 1..MaxBodies : \E world \in [ 1..n -> StepBodies ] :
          /\ bodies = [ k \in 1..n |-> [ world[k] EXCEPT !.id = k ] ]
          /\ nextId = n + 1

NextStep ==
    \/ \E dt \in Dts : Integrate(dt)
    \/ Cull
    \/ BroadPhaseBuild
    \/ SkipPair
    \/ NarrowPair
    \/ BroadPhaseReturn
    \/ StepReturn

SpecStep == InitStep /\ [][NextStep]_vars

\* ------------------------------------------------------------ a RigidBody on its own
\* One RigidBody from its construction on: the arguments of the constructor
\* are drawn first, then the body is constructed, and then the host calls
\* setBoxVertices, move, rotate, snapTo and worldSpace on it in any order.
MaxCalls == 3

InitBody ==
    /\ bodies = << >> /\ staged = << >> /\ pc = "idle" /\ iter = 0
    /\ aabbs = << >> /\ pairs = << >> /\ pk = 0 /\ stats = ZeroStats
    /\ nextId = 1 /\ grid = GridIdle /\ sat = SatIdle /\ solver = SolverIdle
    /\ bucketOrder = "ascending"
    /\ \E n \in { 0, 2, 3, 4 }, m \in { -Scale, 0, Scale, 2 * Scale } :
          made = [ pc |-> "args", n |-> n, r |-> Scale, m |-> m,
                   ctor |-> "none", body |-> DefaultBody, calls |-> 0 ]

\* RigidBody body;
BodyDefault ==
    /\ made.pc = "args"
    /\ made' = [ made EXCEPT !.pc = "built", !.ctor = "default",
                             !.body = DefaultBody ]
    /\ UNCHANGED << worldVars, grid, sat, solver, bucketOrder >>

\* RigidBody body(n, r, m);
BodyPolygon ==
    /\ made.pc = "args"
    /\ made' = [ made EXCEPT !.pc = "built", !.ctor = "polygon",
                             !.body = RigidBodyPolygon(made.n, made.r, made.m) ]
    /\ UNCHANGED << worldVars, grid, sat, solver, bucketOrder >>

BodySetBoxVertices ==
    /\ made.pc = "built" /\ made.calls < MaxCalls
    /\ \E w \in { 2 * Scale, 6 * Scale }, h \in { Scale, 2 * Scale } :
          made' = [ made EXCEPT !.body = setBoxVertices(made.body, w, h),
                                !.calls = @ + 1 ]
    /\ UNCHANGED << worldVars, grid, sat, solver, bucketOrder >>

BodyMove ==
    /\ made.pc = "built" /\ made.calls < MaxCalls
    /\ \E amount \in { Vec2(Scale, 0), Vec2(0, -50) } :
          made' = [ made EXCEPT !.body = move(made.body, amount), !.calls = @ + 1 ]
    /\ UNCHANGED << worldVars, grid, sat, solver, bucketOrder >>

BodyRotate ==
    /\ made.pc = "built" /\ made.calls < MaxCalls
    /\ \E radians \in { 157, 236 } :
          made' = [ made EXCEPT !.body = rotate(made.body, radians), !.calls = @ + 1 ]
    /\ UNCHANGED << worldVars, grid, sat, solver, bucketOrder >>

BodySnapTo ==
    /\ made.pc = "built" /\ made.calls < MaxCalls
    /\ \E pos \in { Vec2(0, 140), Vec2(-20 * Scale, 2) } :
          made' = [ made EXCEPT !.body = snapTo(made.body, pos), !.calls = @ + 1 ]
    /\ UNCHANGED << worldVars, grid, sat, solver, bucketOrder >>

BodyWorldSpace ==
    /\ made.pc = "built" /\ made.calls < MaxCalls
    /\ made' = [ made EXCEPT !.body = worldSpace(made.body), !.calls = @ + 1 ]
    /\ UNCHANGED << worldVars, grid, sat, solver, bucketOrder >>

NextBody ==
    \/ BodyDefault
    \/ BodyPolygon
    \/ BodySetBoxVertices
    \/ BodyMove
    \/ BodyRotate
    \/ BodySnapTo
    \/ BodyWorldSpace

SpecBody == InitBody /\ [][NextBody]_vars

\* ------------------------------------------------------------ the world's contracts
\* the pose and the velocities of a body
Motion(body) ==
    << body.position, body.rotation, body.linearVelocity, body.angularVelocity >>

\* the cache of a body is current: clean, and equal to the image of the
\* local vertices under the pose
CacheCurrent(body) ==
    ~body.update /\ body.transformedVertices = WorldVertices(body)

\* C1: every time the collision logic of step reads the transformed vertices
\* of a body, the body's dirty flag is false.  The reads of getAABB follow
\* worldSpace at once; the reads of the SAT loop and of the contact
\* extraction are those of a pair that goes on to narrowPhase, whatever
\* pairs the loop resolved before it.
C1_CleanWhenRead ==
    ReachesNarrow => ~PairA.update /\ ~PairB.update

\* C2: when step has returned and the render pass runs next, every body of
\* the collection is clean and its cache equals the image of its vertices
\* under its pose.
C2_CacheCurrentAfterStep ==
    (pc = "render" /\ stats.steps > 0) =>
        \A k \in 1..Len(bodies) : CacheCurrent(bodies[k])

\* C3: a body of the collection with isStatic = true keeps its position,
\* rotation, linear velocity and angular velocity for as long as it stays
\* in the collection.
C3_StaticNeverMoves ==
    [][ \A i \in 1..Len(bodies) : \A j \in 1..Len(bodies') :
          (bodies[i].id = bodies'[j].id /\ bodies[i].isStatic)
              => Motion(bodies'[j]) = Motion(bodies[i]) ]_vars

\* C4: in every state the host interface reaches, a body that is static or
\* has mass <= 0 has inverseMass = 0, and any other body has
\* inverseMass = 1 / mass.
C4_InverseMassInvariant ==
    \A k \in 1..Len(bodies) :
        LET body == bodies[k]
        IN  IF body.isStatic \/ body.mass <= 0
            THEN body.inverseMass = 0
            ELSE body.inverseMass = FDiv(Scale, body.mass)

\* C5: the integration loop of step changes neither the velocity nor the
\* position nor the rotation of a body whose mass is <= 0, static or not.
C5_MasslessNotIntegrated ==
    [][ (pc = "poll" /\ pc' = "cull") =>
          \A k \in 1..Len(bodies) :
              bodies[k].mass <= 0 => Motion(bodies'[k]) = Motion(bodies[k]) ]_vars

\* every body of the world is static
AllStatic == \A k \in 1..Len(bodies) : bodies[k].isStatic

\* the AABBs of two bodies, taken from caches rebuilt as broadPhase does, overlap
BodiesOverlap(a, b) == AABBintersection(getAABB(worldSpace(a)), getAABB(worldSpace(b)))

StepPositions == { "cull", "broad", "pairs", "stepEnd", "nonfinite" }

\* a body the mouse callback made: nothing else writes restitution 0.2
Clicked(body) == body.restitution = 20

\* C18: within a frame the render pass, the mouse callback and step run one
\* after another: the render pass changes no body and is followed by the
\* event poll, the poll by step, step by the next render pass; once the
\* loop runs, a body is appended only by the callback, between the render
\* pass and step.
C18_OneAfterAnother ==
    [][ /\ pc = "render" => bodies' = bodies /\ stats' = stats /\ pc' \in { "poll", "closed" }
        /\ pc = "poll" => pc' \in { "poll", "cull" }
        /\ pc \in StepPositions => pc' \in StepPositions \cup { "render" }
        /\ (pc # "setup" /\ Len(bodies') > Len(bodies))
               => /\ pc = "poll" /\ pc' = "poll"
                  /\ bodies' = Append(bodies, bodies'[Len(bodies')])
                  /\ Clicked(bodies'[Len(bodies')]) ]_vars

\* a frame has run through: a body appended by the callback went through
\* step and the next render pass is about to draw it
C18_Witness ==
    /\ pc = "render" /\ stats.steps >= 1
    /\ \E k \in 1..Len(bodies) : Clicked(bodies[k])

\* narrowPhase did not touch the position or the dirty flag of the body
Unmoved(before, after) ==
    after.position = before.position /\ after.update = before.update

\* the body was moved by sign * correction * inverseMass and marked dirty,
\* the correction being normal * max(penetration - slop, 0) / invMassSum * percent
MovedBy(before, after, m, invMassSum, sign) ==
    /\ after.position =
          VAdd(before.position,
               VScale(VScale(m.normal,
                             FMul(FDiv(FMax(m.penetration - Slop, 0), invMassSum), Percent)),
                      sign * before.inverseMass))
    /\ sign * Dot(VSub(after.position, before.position), m.normal) >= 0
    /\ after.update

\* what one call narrowPhase(A, B) with manifold m made of the positions
PositionsAfterNarrow(A, B, afterA, afterB, m) ==
    /\ (A.inverseMass + B.inverseMass = 0) => Unmoved(A, afterA) /\ Unmoved(B, afterB)
    /\ A.isStatic => afterA.position = A.position
    /\ B.isStatic => afterB.position = B.position
    /\ (m.inCollision /\ A.inverseMass + B.inverseMass > 0 /\ pc' # "nonfinite")
          => /\ ~A.isStatic => MovedBy(A, afterA, m, A.inverseMass + B.inverseMass, -1)
             /\ ~B.isStatic => MovedBy(B, afterB, m, A.inverseMass + B.inverseMass, 1)

\* C21: when the inverse masses of a colliding pair sum to 0, narrowPhase
\* leaves both positions and both dirty flags as they were; when the sum is
\* positive, A is moved against the normal and B along it by correction *
\* inverse mass; a body flagged static is never moved.
C21_PositionalCorrection ==
    [][ ReachesNarrow =>
          PositionsAfterNarrow(PairA, PairB, bodies'[pairs[pk][1]], bodies'[pairs[pk][2]],
                               SATCollision(PairA, PairB)) ]_vars

\* narrowPhase has corrected a pair in this solver iteration: a dynamic body
\* was pushed off a static one, which stayed where it was with a clean cache
C21_Witness ==
    /\ pc = "pairs" /\ pk > 1 /\ stats.contactsResolved > 0
    /\ \E i, j \in 1..Len(bodies) :
          /\ << i, j >> = pairs[pk - 1]
          /\ bodies[i].isStatic /\ ~bodies[i].update
          /\ ~bodies[j].isStatic /\ bodies[j].update /\ bodies[j].inverseMass > 0

\* a turn of the loop over the candidate pairs: the only steps that test a pair
PairTested == stats'.broadChecks # stats.broadChecks

\* C22: a step runs integrate, cull, then solverIterations times (rebuild
\* every body's world vertices and AABB, build the candidate pairs, test and
\* resolve the pairs): a pair is tested only after all bodies were
\* integrated and culled, and in an iteration only after the AABB of every
\* body was rebuilt in that iteration.
C22_PhasesInOrder ==
    [][ /\ (pc = "poll" /\ pc' # "poll")
              => pc' = "cull" /\ \A k \in 1..Len(bodies') :
                                   ~bodies'[k].isStatic => bodies'[k].update
        /\ pc = "cull"
              => /\ pc' = "broad" /\ iter' = 0
                 /\ \A k \in 1..Len(bodies') : ~Culled(bodies'[k])
        /\ pc = "broad"
              => /\ pc' = "pairs" /\ pk' = 1 /\ iter' = iter
                 /\ Len(aabbs') = Len(bodies')
                 /\ \A k \in 1..Len(bodies') :
                       CacheCurrent(bodies'[k]) /\ aabbs'[k] = getAABB(bodies'[k])
        /\ PairTested => pc = "pairs" /\ iter' = iter /\ iter < SolverIterations
        /\ (pc = "pairs" /\ pc' = "broad") => iter' = iter + 1 /\ iter' < SolverIterations
        /\ pc' = "stepEnd" => pc = "pairs" /\ iter' = SolverIterations
        /\ (pc = "stepEnd") => pc' = "render" ]_vars

\* a step has gone through all its solver iterations on at least two
\* bodies, testing a pair in every one of them
C22_Witness ==
    /\ pc = "stepEnd" /\ iter = SolverIterations
    /\ Len(bodies) >= 2 /\ stats.broadChecks >= SolverIterations
    /\ stats.contactsResolved > 0

\* the bodies that are not below the bound, by their place in the collection
InBounds == { k \in 1..Len(bodies) : bodies[k].position.y >= -YBounds }

\* the place a body that stays has after the erase
PlaceAfterCull(k) == Cardinality({ j \in InBounds : j <= k })

Identities(collection) == [ k \in 1..Len(collection) |-> collection[k].id ]

\* C23: the cull of step removes exactly the bodies, static or dynamic, whose
\* position.y after integration is below -yBounds; every other body stays,
\* in its order and as it was, and the removed bodies take part in no
\* collision processing of the step.
C23_CullBelowBounds ==
    [][ /\ pc = "cull"
              => /\ Len(bodies') = Cardinality(InBounds)
                 /\ \A k \in InBounds : bodies'[PlaceAfterCull(k)] = bodies[k]
        /\ pc \in { "broad", "pairs", "stepEnd" }
              => /\ Identities(bodies') = Identities(bodies)
                 /\ \A n \in 1..Len(pairs') :
                       pairs'[n][1] \in 1..Len(bodies') /\ pairs'[n][2] \in 1..Len(bodies') ]_vars

\* a step on three bodies went through its solver iterations with the
\* second body alone: a static box on the bound that stayed, while the
\* bodies before and after it were removed
C23_Witness ==
    /\ pc = "stepEnd" /\ nextId = 4
    /\ Len(bodies) = 1 /\ bodies[1].id = 2
    /\ bodies[1].isStatic /\ bodies[1].position.y = -YBounds

\* box a lies strictly left of, right of, below or above box b
StrictlyApart(a, b) ==
    \/ a.max.x < b.min.x \/ a.min.x > b.max.x
    \/ a.max.y < b.min.y \/ a.min.y > b.max.y

\* the boxes meet in an edge or a corner and nowhere else
OnlyTouching(a, b) ==
    /\ ~StrictlyApart(a, b)
    /\ a.max.x = b.min.x \/ a.min.x = b.max.x \/ a.max.y = b.min.y \/ a.min.y = b.max.y

\* C25: AABBintersection(a, b) is false exactly when one box is strictly
\* left of, right of, above or below the other, so boxes that only touch
\* intersect, and it gives the same for (a, b) and (b, a): the loop of
\* broadPhase takes a pair that is not both static on to narrowPhase
\* exactly when the boxes are not strictly apart.
C25_TouchingIntersects ==
    [][ (AtPair /\ ~(PairA.isStatic /\ PairB.isStatic))
          => /\ (stats'.narrowChecks # stats.narrowChecks)
                   <=> ~StrictlyApart(aabbs[pairs[pk][1]], aabbs[pairs[pk][2]])
             /\ AABBintersection(aabbs[pairs[pk][1]], aabbs[pairs[pk][2]])
                   <=> ~StrictlyApart(aabbs[pairs[pk][2]], aabbs[pairs[pk][1]])
             /\ AABBintersection(aabbs[pairs[pk][2]], aabbs[pairs[pk][1]])
                   <=> AABBintersection(aabbs[pairs[pk][1]], aabbs[pairs[pk][2]]) ]_vars

\* the first pair of a step, a box and a polygon whose AABBs only touch, was
\* taken on to narrowPhase
C25_Witness ==
    /\ pc = "pairs" /\ iter = 0 /\ pk = 2 /\ Len(bodies) = 2
    /\ OnlyTouching(aabbs[pairs[1][1]], aabbs[pairs[1][2]])
    /\ stats.narrowChecks = 1

\* the denominators resolveCollision divides by at one contact: that of j
\* when the contact is not separating, that of jTangent when friction applies
TangentDenominatorPositive(A, B, radiusA, radiusB, tangent) ==
    FloatCloselyEqual(VLength(tangent), 0)
    \/ DenominatorAlong(A, B, radiusA, radiusB, VNormalise(tangent)) > 0

DenominatorsPositiveAlong(A, B, normal, radiusA, radiusB, relativeVel) ==
    Dot(relativeVel, normal) <= 0 =>
        /\ DenominatorAlong(A, B, radiusA, radiusB, normal) > 0
        /\ TangentDenominatorPositive(A, B, radiusA, radiusB,
               VSub(relativeVel, VScale(normal, Dot(relativeVel, normal))))

DenominatorsPositiveAt(A, B, normal, radiusA, radiusB) ==
    DenominatorsPositiveAlong(A, B, normal, radiusA, radiusB,
                              RelativeVel(A, B, Perp(radiusA), Perp(radiusB)))

DenominatorsPositive(A, B, m) ==
    /\ m.contactCount >= 1 =>
          DenominatorsPositiveAt(A, B, m.normal, VSub(m.contact1, A.position),
                                 VSub(m.contact1, B.position))
    /\ m.contactCount >= 2 =>
          DenominatorsPositiveAt(A, B, m.normal, VSub(m.contact2, A.position),
                                 VSub(m.contact2, B.position))

CollidingDenominatorsPositive(A, B, m) == m.inCollision => DenominatorsPositive(A, B, m)

\* C27: for every pair broadPhase hands to narrowPhase (not both flagged
\* static, AABBs intersecting) that is in collision, every denominator
\* resolveCollision divides by is strictly positive, and the step never
\* comes to a velocity that is not finite.
C27_DenominatorPositive ==
    /\ ReachesNarrow => CollidingDenominatorsPositive(PairA, PairB, SATCollision(PairA, PairB))
    /\ pc # "nonfinite"

\* the counters of WorldStats
Counters == { "bodyUpdates", "broadChecks", "narrowChecks", "contactsResolved", "steps" }

\* every pair resolved was tested by SAT, every pair tested by SAT was a candidate
CountersOrdered ==
    stats.contactsResolved <= stats.narrowChecks /\ stats.narrowChecks <= stats.broadChecks

\* a call of step comes to its end
StepCompletes == pc = "stepEnd" /\ pc' = "render"

CountersGrow ==
    /\ \A c \in Counters : stats'[c] >= stats[c]
    /\ stats'.steps = stats.steps + (IF StepCompletes THEN 1 ELSE 0)

PairsRefer ==
    pc = "pairs" =>
        /\ Len(aabbs) = Len(bodies)
        /\ \A k \in 1..Len(pairs) :
              /\ pairs[k][1] \in 1..Len(bodies)
              /\ pairs[k][2] \in 1..Len(bodies)

\* from the built pair list to the end of the last pair the collection keeps
\* its size and every place its body, so a reference into it stays good
CollectionHeld ==
    pc = "pairs" =>
        /\ Len(bodies') = Len(bodies)
        /\ \A k \in 1..Len(bodies) : bodies'[k].id = bodies[k].id

\* C29: within one solver iteration every index of every candidate pair
\* refers to an existing body, and the body collection does not change its
\* size, nor the body at any place, between the building of the AABB list
\* and the end of the last pair: the references a Manifold holds stay valid.
C29_PairsReferToBodies == []PairsRefer /\ [][CollectionHeld]_vars

\* the loop over at least two candidate pairs has come to its end over three
\* bodies, in a run where a body was culled before and one added by a click
C29_Witness ==
    /\ pc = "pairs" /\ pk > Len(pairs) /\ Len(pairs) >= 2
    /\ Len(bodies) = MaxBodies
    /\ nextId > Len(bodies) + 1
    /\ \E k \in 1..Len(bodies) : Clicked(bodies[k])
    /\ stats.contactsResolved > 0

\* ------------------------------------------------------------ the spatial hash's contracts
\* how often the candidate list in the making holds the pair p
TimesListed(p) ==
    Cardinality({ k \in 1..Len(grid.pairs) :
                    pairKey(grid.pairs[k][1], grid.pairs[k][2]) = p })

Overlapping(p) == AABBintersection(grid.aabbs[p[1]], grid.aabbs[p[2]])

SharedCells(p) ==
    CellsOf(grid.aabbs[p[1]], CellSize) \cap CellsOf(grid.aabbs[p[2]], CellSize)

\* C8 as stated: a pair of indices whose AABBs overlap is a candidate pair
\* exactly once per step.
C8_OncePerStep ==
    (grid.pc = "done" /\ grid.pass = SolverIterations) =>
        \A p \in IndexPairs(Len(grid.aabbs)) : Overlapping(p) => grid.listed[p] = 1

\* C8: for any list of AABBs and any two indices whose AABBs overlap,
\* touching edges included, every candidate list buildPairsFromAABBs returns
\* holds that pair exactly once.  (step has the list built anew in each of
\* its solver iterations.)
C8_OncePerList ==
    grid.pc = "done" =>
        \A p \in IndexPairs(Len(grid.aabbs)) : Overlapping(p) => TimesListed(p) = 1

\* a list was returned for AABBs of which two overlap in two cells or more
\* and two only touch
C8_Witness ==
    /\ grid.pc = "done"
    /\ \E p \in IndexPairs(Len(grid.aabbs)) :
          Overlapping(p) /\ Cardinality(SharedCells(p)) >= 2 /\ TimesListed(p) = 1
    /\ \E p \in IndexPairs(Len(grid.aabbs)) :
          /\ Overlapping(p) /\ TimesListed(p) = 1
          /\ grid.aabbs[p[1]].max.x = grid.aabbs[p[2]].min.x

\* C9: every pair (i, j) buildPairsFromAABBs puts on its list has i < j,
\* whatever the order in which the buckets are iterated.
C9_PairsAscending ==
    grid.pc \in { "visit", "done" } =>
        \A k \in 1..Len(grid.pairs) : grid.pairs[k][1] < grid.pairs[k][2]

\* a list was returned whose pairs were emitted out of index order: the
\* buckets were not visited in ascending order of their contents
C9_Witness ==
    /\ grid.pc = "done" /\ Len(grid.pairs) >= 2
    /\ \E k \in 1..(Len(grid.pairs) - 1) : grid.pairs[k][1] > grid.pairs[k + 1][1]

\* a list as a set of pairs
PairSet(list) == { list[k] : k \in 1..Len(list) }

\* the list the same call returns when the map hands out its buckets in
\* ascending order of their keys
ListInAscendingOrder ==
    buildPairsFromAABBs(grid.aabbs, CellSize, KeyOrder(grid.aabbs, CellSize, "ascending"))

\* C30: for a given list of AABBs the set of candidate pairs
\* buildPairsFromAABBs returns is the same whatever the order in which the
\* bucket map is iterated, only the order of the list may differ; and the
\* two AABBs of every pair on the list cover at least one grid cell in common.
C30_SameSetInEveryOrder ==
    grid.pc = "done" =>
        /\ PairSet(grid.pairs) = PairSet(ListInAscendingOrder)
        /\ Len(grid.pairs) = Len(ListInAscendingOrder)
        /\ \A k \in 1..Len(grid.pairs) : SharedCells(grid.pairs[k]) # {}

\* the buckets were visited in an order that gave the same pairs in another
\* sequence, one of them a pair of AABBs that share a cell without overlapping
C30_Witness ==
    /\ grid.pc = "done" /\ Len(grid.pairs) >= 2
    /\ grid.pairs # ListInAscendingOrder
    /\ PairSet(grid.pairs) = PairSet(ListInAscendingOrder)
    /\ \E k \in 1..Len(grid.pairs) : ~Overlapping(grid.pairs[k])

\* ------------------------------------------------------------ SATCollision's contracts
\* SATCollision has returned from a call in which no SATLoop read an empty cache
SatReturned ==
    /\ sat.pc = "done"
    /\ SATLoopDefined(sat.A, sat.B) /\ SATLoopDefined(sat.B, sat.A)

\* the projection intervals of P and Q on the axis of edge i of P
IntervalsOn(P, Q, i) ==
    LET axis == EdgeAxis(P.transformedVertices, i)
    IN  [ a |-> projectAxis(P.transformedVertices, axis),
          b |-> projectAxis(Q.transformedVertices, axis) ]

\* on the axis of some edge of P one interval ends where the other begins
TouchOnAnAxis(P, Q) ==
    \E i \in 1..Len(P.transformedVertices) :
        LET iv == IntervalsOn(P, Q, i)
        IN  iv.a.max = iv.b.min \/ iv.b.max = iv.a.min

BothHaveVertices ==
    sat.A.transformedVertices # << >> /\ sat.B.transformedVertices # << >>

\* C6: every manifold SATCollision returns has inCollision = true exactly
\* when contactCount > 0, and contactCount is 0, 1 or 2.
C6_ManifoldInvariant ==
    SatReturned =>
        /\ sat.manifold.inCollision <=> sat.manifold.contactCount > 0
        /\ sat.manifold.contactCount \in { 0, 1, 2 }

\* C7: whenever SATCollision reports a collision, the normal points from A
\* toward B, normal . (B.position - A.position) >= 0: already when the
\* contact points are about to be extracted, while they are extracted, and
\* in the manifold returned.
C7_NormalFromAToB ==
    /\ (sat.pc \in { "oriented", "contacts" } /\ sat.inCollision) =>
          DotSq(sat.normal, VSub(sat.B.position, sat.A.position)) >= 0
    /\ (sat.pc = "done" /\ sat.manifold.inCollision) =>
          DotSq(sat.manifold.normal, VSub(sat.B.position, sat.A.position)) >= 0

\* a collision was reported whose normal the SAT loops left pointing from B
\* to A
C7_Witness ==
    /\ SatReturned /\ BothHaveVertices /\ sat.manifold.inCollision
    /\ DotSq(SATLoops(sat.A, sat.B).normal, VSub(sat.B.position, sat.A.position)) < 0
    /\ sat.manifold.contactCount > 0

\* C10 as stated: if on an axis tested the intervals only touch, SATCollision
\* reports inCollision = false.
C10_TouchIsSeparated ==
    (SatReturned /\ BothHaveVertices
       /\ (TouchOnAnAxis(sat.A, sat.B) \/ TouchOnAnAxis(sat.B, sat.A)))
        => ~sat.manifold.inCollision

\* the candidates of the call in iteration order: the vertices of A against
\* the edges of B, then the vertices of B against the edges of A
CallCandidates ==
    gatherCandidates(sat.A.transformedVertices, sat.B.transformedVertices)
    \o gatherCandidates(sat.B.transformedVertices, sat.A.transformedVertices)

\* the least squared distance among the candidates plus 1e-4
ThresholdOf(candidates) ==
    (CHOOSE d \in { candidates[k].distSq : k \in 1..Len(candidates) } :
        \A k \in 1..Len(candidates) : d <= candidates[k].distSq) + ContactEps

\* the candidates after place k1 that are within the threshold and whose
\* point is not closely equal to that of candidate k1
SecondAfter(candidates, threshold, k1) ==
    { k \in (k1 + 1)..Len(candidates) :
        /\ candidates[k].distSq <= threshold
        /\ ~VecCloselyEqual(candidates[k1].point, candidates[k].point) }

\* data is the selection the claim describes, k1 being the first candidate
\* within the threshold
SelectedFrom(candidates, threshold, k1, data) ==
    /\ data.contact1 = candidates[k1].point
    /\ data.contactCount = IF SecondAfter(candidates, threshold, k1) = {} THEN 1 ELSE 2
    /\ \A k2 \in SecondAfter(candidates, threshold, k1) :
          (\A k \in SecondAfter(candidates, threshold, k1) : k2 <= k)
              => data.contact2 = candidates[k2].point

FirstWithin(candidates, threshold) ==
    CHOOSE k1 \in 1..Len(candidates) :
        /\ candidates[k1].distSq <= threshold
        /\ \A k \in 1..(k1 - 1) : candidates[k].distSq > threshold

ContactsChosen ==
    sat.pc \in { "contacts", "done" } /\ sat.inCollision /\ BothHaveVertices

\* C24: with threshold = least candidate squared distance + 1e-4, contact 1
\* is the first candidate in iteration order within the threshold, contact 2
\* the first candidate after it within the threshold whose point is not
\* closely equal to contact 1, and the contact count is 2 exactly when there
\* is such a candidate, else 1.
C24_ContactSelection ==
    ContactsChosen =>
        SelectedFrom(CallCandidates, ThresholdOf(CallCandidates),
                     FirstWithin(CallCandidates, ThresholdOf(CallCandidates)),
                     sat.contactData)

\* two contacts were chosen, the second one past a candidate that is within
\* the threshold but closely equal to the first contact
C24_Witness ==
    /\ ContactsChosen /\ sat.contactData.contactCount = 2
    /\ \E k \in 2..Len(CallCandidates) :
          /\ CallCandidates[k].distSq <= ThresholdOf(CallCandidates)
          /\ VecCloselyEqual(CallCandidates[k].point, sat.contactData.contact1)
          /\ \E j \in 1..(k - 1) : CallCandidates[j].point = sat.contactData.contact1
          /\ \E j \in (k + 1)..Len(CallCandidates) :
                CallCandidates[j].point = sat.contactData.contact2

\* ------------------------------------------------------------ resolveCollision's contracts
\* resolveCollision has returned
Resolved == solver.pc = "done"

\* a dynamic body: not static, of positive mass
Dynamic(body) == ~body.isStatic /\ body.mass > 0

\* m_A * v_A + m_B * v_B, the products kept unrounded (four decimals)
Momentum(A, B) ==
    Vec2(A.mass * A.linearVelocity.x + B.mass * B.linearVelocity.x,
         A.mass * A.linearVelocity.y + B.mass * B.linearVelocity.y)

\* what rounding may add to the momentum: half a grid unit of velocity for
\* each body and each impulse applied
MomentumTolerance == (Len(solver.impulses) * (solver.A.mass + solver.B.mass)) \div 2

HeadOnAgainstStatic(dyn, stat, toward) ==
    /\ Dynamic(dyn) /\ stat.isStatic
    /\ dyn.restitution = stat.restitution
    /\ dyn.angularVelocity = 0
    /\ Cross(dyn.linearVelocity, solver.manifold.normal) = 0
    /\ toward * Dot(dyn.linearVelocity, solver.manifold.normal) > 0

\* the speed along the normal after the resolve is e times the speed before
\* it, the direction reversed (one grid unit of rounding allowed)
ReboundsWithE(before, after) ==
    Abs(Dot(after.linearVelocity, solver.manifold.normal)
        + FMul(before.restitution, Dot(before.linearVelocity, solver.manifold.normal))) <= 1

\* C13: for a head-on collision between a dynamic and a static body sharing
\* restitution e, one resolveCollision leaves the dynamic body with rebound
\* speed e * v_incoming along the normal, with one contact point or with two.
C13_ReboundSpeed ==
    Resolved =>
        /\ HeadOnAgainstStatic(solver.entryA, solver.entryB, 1)
              => ReboundsWithE(solver.entryA, solver.A)
        /\ HeadOnAgainstStatic(solver.entryB, solver.entryA, -1)
              => ReboundsWithE(solver.entryB, solver.B)

\* the velocity of B relative to A at contact k, along the normal, taken
\* from the velocities the bodies had at entry
EntryVelAlongNormal(k) ==
    Dot(RelativeVel(solver.entryA, solver.entryB,
                    Perp(VSub(solver.contacts[k], solver.entryA.position)),
                    Perp(VSub(solver.contacts[k], solver.entryB.position))),
        solver.manifold.normal)

Separating(k) == EntryVelAlongNormal(k) > 0

SameVelocities(before, after) ==
    /\ after.linearVelocity = before.linearVelocity
    /\ after.angularVelocity = before.angularVelocity

\* C19: a contact at which the relative velocity along the normal is
\* positive contributes no impulse, normal or friction; when every contact
\* of the manifold is separating, resolveCollision leaves the velocities of
\* A and B as they were.
C19_SeparatingContactSkipped ==
    /\ \A n \in 1..Len(solver.origin) : ~Separating(solver.origin[n])
    /\ (Resolved /\ \A k \in 1..Len(solver.contacts) : Separating(k))
          => /\ SameVelocities(solver.entryA, solver.A)
             /\ SameVelocities(solver.entryB, solver.B)

\* a manifold of two contacts was resolved whose first contact was
\* separating and whose second was not: only the second pushed impulses
C19_Witness ==
    /\ Resolved /\ Len(solver.contacts) = 2
    /\ Separating(1) /\ ~Separating(2)
    /\ Len(solver.impulses) >= 1
    /\ ~SameVelocities(solver.entryA, solver.A)

\* the manifold with its two contact points taken in the other order
SwappedContacts(m) == [ m EXCEPT !.contact1 = m.contact2, !.contact2 = m.contact1 ]

\* C20: the impulses of every contact are computed from the velocities the
\* bodies had at entry and only then applied (the bodies are untouched while
\* the loop over the contacts runs), and the velocities resolveCollision
\* leaves are those it leaves with the two contact points in the other order.
C20_OrderOfContacts ==
    /\ solver.pc = "contacts"
          => solver.A = solver.entryA /\ solver.B = solver.entryB
    /\ (Resolved /\ solver.manifold.contactCount = 2)
          => /\ SameVelocities(resolveCollision(SwappedContacts(solver.manifold),
                                                solver.entryA, solver.entryB).A, solver.A)
             /\ SameVelocities(resolveCollision(SwappedContacts(solver.manifold),
                                                solver.entryA, solver.entryB).B, solver.B)

\* two contacts that push different impulses, friction among them, were
\* resolved and both bodies changed their linear and angular velocity
C20_Witness ==
    /\ Resolved /\ solver.manifold.contactCount = 2
    /\ Len(solver.impulses) = 4
    /\ solver.impulses[1].impulse # solver.impulses[3].impulse
    /\ solver.A.angularVelocity # solver.entryA.angularVelocity
    /\ solver.B.linearVelocity # solver.entryB.linearVelocity

\* the locals of the loop body of resolveCollision at contact k, taken from
\* the bodies as they were at entry
EntryRelativeVel(k) ==
    RelativeVel(solver.entryA, solver.entryB,
                Perp(VSub(solver.contacts[k], solver.entryA.position)),
                Perp(VSub(solver.contacts[k], solver.entryB.position)))

EntryTangent(k) ==
    VNormalise(VSub(EntryRelativeVel(k),
                    VScale(solver.manifold.normal, EntryVelAlongNormal(k))))

EntryJ(k) ==
    NormalImpulse(solver.entryA, solver.entryB, solver.manifold.contactCount,
                  EntryVelAlongNormal(k),
                  DenominatorAlong(solver.entryA, solver.entryB,
                                   VSub(solver.contacts[k], solver.entryA.position),
                                   VSub(solver.contacts[k], solver.entryB.position),
                                   solver.manifold.normal))

EntryJTangent(k) ==
    TangentImpulse(EntryRelativeVel(k), EntryTangent(k), solver.manifold.contactCount,
                   DenominatorAlong(solver.entryA, solver.entryB,
                                    VSub(solver.contacts[k], solver.entryA.position),
                                    VSub(solver.contacts[k], solver.entryB.position),
                                    EntryTangent(k)))

\* the coefficients of the pair: the lesser of the two bodies' coefficients
PairStaticFriction ==
    IF solver.entryA.staticFriction < solver.entryB.staticFriction
    THEN solver.entryA.staticFriction ELSE solver.entryB.staticFriction
PairDynamicFriction ==
    IF solver.entryA.dynamicFriction < solver.entryB.dynamicFriction
    THEN solver.entryA.dynamicFriction ELSE solver.entryB.dynamicFriction

\* contact k is in the kinetic regime
Kinetic(k) == Abs(EntryJTangent(k)) > FMul(EntryJ(k), PairStaticFriction)

\* equal up to one grid unit in each component
WithinOneUnit(u, v) == Abs(u.x - v.x) <= 1 /\ Abs(u.y - v.y) <= 1

\* impulses n and n + 1 are the normal and the friction impulse of one contact
FrictionAt(n) == n < Len(solver.impulses) /\ solver.origin[n] = solver.origin[n + 1]

Built == made.pc = "built"

\* C14: a body made by the polygon constructor with mass <= 0 or sides < 3
\* has inertia 0 and inverse mass 0, also for sides < 3 with a positive mass.
C14_InvalidPolygonIsInert ==
    (Built /\ made.ctor = "polygon" /\ (made.m <= 0 \/ made.n < 3))
        => made.body.inertia = 0 /\ made.body.inverseMass = 0

\* C15: a constructed body has inverse inertia 1 / inertia when its inertia
\* is positive and 0 otherwise, never an infinite or undefined one.
C15_InverseInertiaDefined ==
    Built =>
        /\ made.body.inverseInertia # Infinity
        /\ made.body.inverseInertia =
              IF made.body.inertia > 0 THEN FDiv(Scale, made.body.inertia) ELSE 0

\* C16: in every state of a body, from its construction on and through
\* setBoxVertices, move, rotate, snapTo and worldSpace, a false dirty flag
\* means the transformed vertices are the image of the local vertices under
\* the body's position and rotation.
C16_CleanMeansCurrent ==
    (Built /\ ~made.body.update)
        => made.body.transformedVertices = WorldVertices(made.body)

\* ------------------------------------------------------------ the row's contracts
Listed == grid.pc = "listed"

\* the number of pairs of n bodies
AllPairs(n) == (n * (n - 1)) \div 2

\* C17 as stated: for the 50 bodies of radius 1, 0.02 apart from x = -20
\* on, the candidate list of the spatial hash with cell size 2 is linear in
\* n: it does not hold the n(n-1)/2 pairs of all bodies.
C17_FewerThanAllPairs ==
    (Listed /\ grid.n = RowBodies) => Len(grid.pairs) < AllPairs(grid.n)

\* C17: for the bodies of radius 1 that main places 0.02 apart from x = -20
\* on, the candidate list of the spatial hash with cell size 2 holds every
\* pair of bodies, each once: n(n-1)/2 pairs.
C17_AllPairsListed ==
    Listed =>
        /\ Len(grid.pairs) = AllPairs(grid.n)
        /\ \A i, j \in 1..grid.n :
              i < j => \E k \in 1..Len(grid.pairs) :
                          pairKey(grid.pairs[k][1], grid.pairs[k][2]) = << i, j >>

\* the list was built over all the bodies of the row, whose AABBs lie over
\* several cells
C17_Witness ==
    /\ Listed /\ grid.n = RowBodies /\ grid.layout = "row"
    /\ Cardinality(BucketKeys(grid.aabbs, CellSize)) > 2
    /\ Len(grid.pairs) > 2 * grid.n

====
